---------------------------- MODULE Spec2Model ----------------------------
(***************************************************************************)
(* A model of the AHI codec (mdsteele/ahi): the pixel colour codec, the    *)
(* header tokenizer, the palette codec and the collection reader/writer.   *)
(*                                                                         *)
(* Bytes are natural numbers 0..255, texts are sequences of bytes, strings *)
(* (tags) are sequences of Unicode scalar values, and every reader is an   *)
(* operator from the unread input to a result that carries the rest of the *)
(* input.  A reader's result is a record with kind "ok" or "err".          *)
(***************************************************************************)
EXTENDS Integers, Sequences, FiniteSets, TLC

VARIABLES
    c_color,      \* colour codec: the Color under test (its index 0..15)
    c_byte,       \* colour codec: the byte written, or loaded from a file
    c_decoded,    \* colour codec: the result of Color::from_byte
    hi_term,      \* read_header_int: the terminator argument
    hi_consumed,  \* read_header_int: the bytes the reader has yielded so far
    hi_st,        \* read_header_int: the locals negative, any_digits, value
    hi_result,    \* read_header_int: the returned io::Result, once returned
    palette,      \* palette codec: the Palette under test (its rgba array)
    pal_sets,     \* palette codec: the number of Palette::set calls so far
    pal_text,     \* palette codec: the bytes written, or loaded from a file
    pal_from,     \* palette codec: "new", or where pal_text comes from
    pal_result,   \* palette codec: the result of Palette::read on pal_text
    pal_rewritten, \* palette codec: the bytes written from the palette read
    coll,         \* collection codec: the Collection under test
    coll_output,  \* collection codec: the bytes Collection::write wrote
    coll_readback, \* collection codec: the result of Collection::read
    hu_result,    \* read_header_uint: its result on the bytes hi_consumed
    rd_input,     \* list and string readers: the input of the reader
    rd_result,    \* list and string readers: the outcome of the call
    img_list,     \* image operations: the slice of images under test
    img_text,     \* image operations: the bytes written or loaded
    img_result,   \* image operations: the result of write_all or read_all
    fnt,          \* font: the Font under test
    fnt_result,   \* font: the outcome of the last operation on it
    ar_header,    \* arithmetic: the locals of read_header_int, byte by byte
    ar_list,      \* arithmetic: the locals of a pass of read_list_of_i16s
    ar_pixels     \* arithmetic: the pixel count of an image of a read size

colorVars == <<c_color, c_byte, c_decoded>>
headerIntVars == <<hi_term, hi_consumed, hi_st, hi_result>>
paletteVars ==
    <<palette, pal_sets, pal_text, pal_from, pal_result, pal_rewritten>>

collectionVars == <<coll, coll_output, coll_readback>>

readerVars == <<hu_result, rd_input, rd_result>>
imageVars == <<img_list, img_text, img_result>>
fontVars == <<fnt, fnt_result>>
arithVars == <<ar_header, ar_list, ar_pixels>>

vars ==
    <<colorVars, headerIntVars, paletteVars, collectionVars, readerVars,
      imageVars, fontVars, arithVars>>

\* what the operations on one group of variables leave alone
notColor ==
    <<headerIntVars, paletteVars, collectionVars, readerVars, imageVars,
      fontVars, arithVars>>
notHeaderInt ==
    <<colorVars, paletteVars, collectionVars, readerVars, imageVars,
      fontVars, arithVars>>
notPalette ==
    <<colorVars, headerIntVars, collectionVars, readerVars, imageVars,
      fontVars, arithVars>>
notCollection ==
    <<colorVars, headerIntVars, paletteVars, readerVars, imageVars,
      fontVars, arithVars>>
notReader ==
    <<colorVars, headerIntVars, paletteVars, collectionVars, imageVars,
      fontVars, arithVars>>
notImage ==
    <<colorVars, headerIntVars, paletteVars, collectionVars, readerVars,
      fontVars, arithVars>>
notFont ==
    <<colorVars, headerIntVars, paletteVars, collectionVars, readerVars,
      imageVars, arithVars>>
notArith ==
    <<colorVars, headerIntVars, paletteVars, collectionVars, readerVars,
      imageVars, fontVars>>

---------------------------------------------------------------------------
(* Bounds of the model. *)

\* the longest header field fed to read_header_int, in bytes
MaxHeaderBytes == 6

\* the number of Palette::set calls on the palette under test
MaxPaletteSets == 1

\* how many digits more than the 8 of the longest palette field a field of
\* a loaded line may have
MaxExtraDigits == 2

\* the number of images and of palettes pushed to the collection under test
MaxImages == 2
MaxPalettes == 1

\* the largest width and height of an image that has pixels, and the
\* largest number of pixels
MaxDim == 2
MaxPixels == 2

---------------------------------------------------------------------------
(* Bytes and results. *)

NL == 10
TAB == 9
CR == 13

Printable ==
    << " ", "!", "dquote", "#", "$", "%", "&", "'", "(", ")", "*", "+", ",", "-",
       ".", "/", "0", "1", "2", "3", "4", "5", "6", "7", "8", "9", ":", ";",
       "<", "=", ">", "?", "@", "A", "B", "C", "D", "E", "F", "G", "H", "I",
       "J", "K", "L", "M", "N", "O", "P", "Q", "R", "S", "T", "U", "V", "W",
       "X", "Y", "Z", "[", "backslash", "]", "^", "_", "grave", "a", "b", "c", "d", "e",
       "f", "g", "h", "i", "j", "k", "l", "m", "n", "o", "p", "q", "r", "s",
       "t", "u", "v", "w", "x", "y", "z", "{", "|", "}", "~" >>

\* the ASCII code of a printable character, named by itself (the double
\* quote, the backslash and the grave accent by a word)
Byte(c) == 31 + (CHOOSE i \in 1..Len(Printable) : Printable[i] = c)

\* a byte string literal, one character per element
Bytes(t) == [i \in 1..Len(t) |-> Byte(t[i])]

b_0 == Byte("0")
b_9 == Byte("9")
b_minus == Byte("-")
b_space == Byte(" ")
b_semicolon == Byte(";")
b_a == Byte("a")
b_f == Byte("f")
b_A == Byte("A")
b_F == Byte("F")

None == [kind |-> "none"]
Ok(v) == [kind |-> "ok", val |-> v]
Err(e) == [kind |-> "err", err |-> e]

IsOk(r) == r.kind = "ok"
IsErr(r) == r.kind = "err"

---------------------------------------------------------------------------
(* Color (src/internal/color.rs).  A Color is modelled by its index. *)

Colors == 0..15

ToByteTable ==
    << "0", "1", "2", "3", "4", "5", "6", "7",
       "8", "9", "A", "B", "C", "D", "E", "F" >>

to_byte_lowercase(color) ==
    Byte(<< "0", "1", "2", "3", "4", "5", "6", "7",
            "8", "9", "a", "b", "c", "d", "e", "f" >>[color + 1])

to_byte(color) == Byte(ToByteTable[color + 1])

from_byte(byte) ==
    CASE byte = Byte("0") -> Ok(0)
      [] byte = Byte("1") -> Ok(1)
      [] byte = Byte("2") -> Ok(2)
      [] byte = Byte("3") -> Ok(3)
      [] byte = Byte("4") -> Ok(4)
      [] byte = Byte("5") -> Ok(5)
      [] byte = Byte("6") -> Ok(6)
      [] byte = Byte("7") -> Ok(7)
      [] byte = Byte("8") -> Ok(8)
      [] byte = Byte("9") -> Ok(9)
      [] byte = Byte("A") -> Ok(10)
      [] byte = Byte("B") -> Ok(11)
      [] byte = Byte("C") -> Ok(12)
      [] byte = Byte("D") -> Ok(13)
      [] byte = Byte("E") -> Ok(14)
      [] byte = Byte("F") -> Ok(15)
      [] OTHER -> Err("invalid pixel character")

---------------------------------------------------------------------------
(* read_header_int (src/internal/util.rs). *)

MAX_HEADER_VALUE == 65535

\* the locals of read_header_int before the loop
HeaderIntStart == [negative |-> FALSE, any_digits |-> FALSE, value |-> 0,
                   at |-> "loop", err |-> ""]

\* a pass of the loop that takes a value of any size
HeaderIntStepUncapped(st, byte, terminator) ==
    IF byte = terminator THEN
        IF ~st.any_digits
        THEN [st EXCEPT !.at = "return",
                        !.err = "missing integer field in header"]
        ELSE [st EXCEPT !.at = "break"]
    ELSE IF byte = b_minus THEN
        IF st.negative \/ st.any_digits
        THEN [st EXCEPT !.at = "return",
                        !.err = "misplaced minus sign in header field"]
        ELSE [st EXCEPT !.negative = TRUE]
    ELSE IF byte < b_0 \/ byte > b_9 THEN
        [st EXCEPT !.at = "return", !.err = "invalid byte in header field"]
    ELSE
        [st EXCEPT !.value = st.value * 10 + (byte - b_0),
                   !.any_digits = TRUE]

\* one pass of the loop over reader.bytes(), for the byte it yielded; value
\* is an i32 and stays below 655360, so no pass overflows
HeaderIntStep(st, byte, terminator) ==
    IF byte = terminator THEN
        IF ~st.any_digits
        THEN [st EXCEPT !.at = "return",
                        !.err = "missing integer field in header"]
        ELSE [st EXCEPT !.at = "break"]
    ELSE IF byte = b_minus THEN
        IF st.negative \/ st.any_digits
        THEN [st EXCEPT !.at = "return",
                        !.err = "misplaced minus sign in header field"]
        ELSE [st EXCEPT !.negative = TRUE]
    ELSE IF byte < b_0 \/ byte > b_9 THEN
        [st EXCEPT !.at = "return", !.err = "invalid byte in header field"]
    ELSE
        LET v == st.value * 10 + (byte - b_0) IN
        IF v > MAX_HEADER_VALUE
        THEN [st EXCEPT !.value = v, !.at = "return",
                        !.err = "header value is too large"]
        ELSE [st EXCEPT !.value = v, !.any_digits = TRUE]

\* the code after the loop: the loop was left by break or by the end of the
\* byte iterator
HeaderIntFinish(st) ==
    IF st.at = "return" THEN Err(st.err)
    ELSE Ok(IF st.negative THEN 0 - st.value ELSE st.value)

---------------------------------------------------------------------------
(* Formatting (the write! macro of std::fmt). *)

\* the uppercase hexadecimal digit of i, for i in 0..15
UpperHexDigit(i) == IF i < 10 THEN b_0 + i ELSE b_A + (i - 10)

RECURSIVE FormatUpperHex(_, _)
\* {:X}, {:01X} and {:02X}: n in uppercase hexadecimal, zero-padded to at
\* least width digits
FormatUpperHex(n, width) ==
    IF n < 16 /\ width <= 1 THEN << UpperHexDigit(n) >>
    ELSE Append(FormatUpperHex(n \div 16, width - 1), UpperHexDigit(n % 16))

\* only the last decimal digit of n
FormatUnsignedOneDigit(n) == << b_0 + (n % 10) >>

RECURSIVE FormatUnsigned(_)
\* {} of an unsigned integer: n in decimal
FormatUnsigned(n) ==
    IF n < 10 THEN << b_0 + n >>
    ELSE Append(FormatUnsigned(n \div 10), b_0 + (n % 10))

\* {}: an integer in decimal, with a leading '-' when negative
FormatDecimal(n) ==
    IF n < 0 THEN << b_minus >> \o FormatUnsigned(0 - n) ELSE FormatUnsigned(n)

---------------------------------------------------------------------------
(* Readers.  A reader takes the unread input and returns Ok(val) or Err(e) *)
(* with the field rest, the input left unread.                             *)

ROk(v, rest) == [kind |-> "ok", val |-> v, rest |-> rest]
RErr(e, rest) == [kind |-> "err", err |-> e, rest |-> rest]

\* the value of Ok or Err without the reader's position
Result(r) == IF r.kind = "ok" THEN Ok(r.val) ELSE Err(r.err)

\* the value of one hex digit byte, or -1
HexDigitValue(byte) ==
    IF byte >= b_0 /\ byte <= b_9 THEN byte - b_0
    ELSE IF byte >= b_a /\ byte <= b_f THEN byte - b_a + 10
    ELSE IF byte >= b_A /\ byte <= b_F THEN byte - b_A + 10
    ELSE 0 - 1

RECURSIVE ReadHexDigitsLoop(_, _, _)
\* the loop of read_hex_digits over reader.bytes(): it ends at the
\* terminator, which it consumes, and also when the input ends
ReadHexDigitsLoop(digits, s, terminator) ==
    IF s = << >> THEN ROk(digits, s)
    ELSE IF Head(s) = terminator THEN ROk(digits, Tail(s))
    ELSE IF HexDigitValue(Head(s)) < 0 THEN RErr("invalid hex digit", Tail(s))
    ELSE ReadHexDigitsLoop(Append(digits, HexDigitValue(Head(s))), Tail(s),
                           terminator)

read_hex_digits(s, terminator) == ReadHexDigitsLoop(<< >>, s, terminator)

\* the ? operator and try!: an error is returned at once, and otherwise the
\* code F that follows runs on the value and the input left
Bind(r, F(_, _)) == IF r.kind = "ok" THEN F(r.val, r.rest) ELSE r

\* reader.read_exact(&mut buffer) for a buffer of n bytes
read_exact(s, n) ==
    IF Len(s) < n THEN RErr("failed to fill whole buffer", << >>)
    ELSE ROk(SubSeq(s, 1, n), SubSeq(s, n + 1, Len(s)))

read_exactly(s, expected) ==
    Bind(read_exact(s, Len(expected)), LAMBDA actual, rest :
        IF actual # expected THEN RErr("expected, found", rest)
        ELSE ROk(<< >>, rest))

RECURSIVE HeaderIntLoop(_, _, _)
\* the loop of read_header_int over reader.bytes(): the locals and the input
\* left when the loop is left, by break, by return or because the input ends
HeaderIntLoop(st, s, terminator) ==
    IF s = << >> THEN [st |-> st, rest |-> s]
    ELSE
        LET next == HeaderIntStep(st, Head(s), terminator) IN
        IF next.at = "loop" THEN HeaderIntLoop(next, Tail(s), terminator)
        ELSE [st |-> next, rest |-> Tail(s)]

read_header_int(s, terminator) ==
    LET end == HeaderIntLoop(HeaderIntStart, s, terminator)
        result == HeaderIntFinish(end.st)
    IN
    IF result.kind = "ok" THEN ROk(result.val, end.rest)
    ELSE RErr(result.err, end.rest)

\* read_header_int under another name: a negative value is returned
read_header_uint_unchecked(s, terminator) == read_header_int(s, terminator)

read_header_uint(s, terminator) ==
    Bind(read_header_int(s, terminator), LAMBDA value, rest :
        IF value < 0 THEN RErr("value must be nonnegative", rest)
        ELSE ROk(value, rest))

\* A u32 is kept as its two 16-bit halves.
U32(hi, lo) == [hi |-> hi, lo |-> lo]

RECURSIVE HexU32Loop(_, _)
\* value = value * 0x10 + digit over the digits, in u32 arithmetic
HexU32Loop(value, digits) ==
    IF digits = << >> THEN value
    ELSE HexU32Loop(
            U32((value.hi * 16 + value.lo \div 4096) % 65536,
                (value.lo % 4096) * 16 + Head(digits)),
            Tail(digits))

read_hex_u32(s, terminator) ==
    Bind(read_hex_digits(s, terminator), LAMBDA digits, rest :
        IF digits = << >> THEN RErr("missing hex literal", rest)
        ELSE IF Len(digits) > 8 THEN RErr("hex literal is too large", rest)
        ELSE ROk(HexU32Loop(U32(0, 0), digits), rest))

b_quote == Byte("dquote")
b_backslash == Byte("backslash")
b_apostrophe == Byte("'")
b_tilde == Byte("~")
b_comma == Byte(",")
b_lbracket == Byte("[")
b_rbracket == Byte("]")
b_lbrace == Byte("{")
b_rbrace == Byte("}")
b_n == Byte("n")
b_r == Byte("r")
b_t == Byte("t")
b_u == Byte("u")

\* Option<char>: a char is its Unicode scalar value
NoChar == [some |-> FALSE]
SomeChar(chr) == [some |-> TRUE, chr |-> chr]

\* every value up to 0x10FFFF is taken for a char
char_from_u32_unchecked(value) ==
    IF value.hi > 16 THEN NoChar
    ELSE SomeChar(value.hi * 65536 + value.lo)

\* char::from_u32: scalar values are 0..0x10FFFF without the surrogates
char_from_u32(value) ==
    IF value.hi > 16 \/ (value.hi = 0 /\ value.lo \in 55296..57343)
    THEN NoChar
    ELSE SomeChar(value.hi * 65536 + value.lo)

read_char_escape(s, quote) ==
    Bind(read_exact(s, 1), LAMBDA buffer, s1 :
        LET byte == buffer[1] IN
        IF byte = quote THEN ROk(NoChar, s1)
        ELSE IF byte = b_backslash THEN
            Bind(read_exact(s1, 1), LAMBDA buffer2, s2 :
                LET esc == buffer2[1] IN
                IF esc = b_backslash THEN ROk(SomeChar(b_backslash), s2)
                ELSE IF esc = b_apostrophe THEN ROk(SomeChar(b_apostrophe), s2)
                ELSE IF esc = b_quote THEN ROk(SomeChar(b_quote), s2)
                ELSE IF esc = b_n THEN ROk(SomeChar(NL), s2)
                ELSE IF esc = b_r THEN ROk(SomeChar(CR), s2)
                ELSE IF esc = b_t THEN ROk(SomeChar(TAB), s2)
                ELSE IF esc = b_u THEN
                    Bind(read_exactly(s2, <<b_lbrace>>), LAMBDA unit, s3 :
                    Bind(read_hex_u32(s3, b_rbrace), LAMBDA value, s4 :
                        IF char_from_u32(value).some
                        THEN ROk(char_from_u32(value), s4)
                        ELSE RErr("invalid unicode value", s4)))
                ELSE RErr("invalid char escape", s2))
        ELSE IF byte < b_space \/ byte > b_tilde
        THEN RErr("invalid char literal byte", s1)
        ELSE ROk(SomeChar(byte), s1))

RECURSIVE QuotedStringLoop(_, _)
\* while let Some(chr) = read_char_escape(reader, b'"')? { string.push(chr) }
QuotedStringLoop(string, s) ==
    Bind(read_char_escape(s, b_quote), LAMBDA chr, rest :
        IF chr.some THEN QuotedStringLoop(Append(string, chr.chr), rest)
        ELSE ROk(string, rest))

read_quoted_string(s) ==
    Bind(read_exactly(s, <<b_quote>>), LAMBDA unit, rest :
        QuotedStringLoop(<< >>, rest))

\* the locals of one pass of the while loop of read_list_of_i16s
ListIntStart ==
    [negative |-> FALSE, any_digits |-> FALSE, value |-> 0, done |-> FALSE,
     at |-> "loop", err |-> ""]

\* a pass of the for loop that does not break on a large value
ListIntStepUncapped(st, byte, values) ==
    IF byte = b_rbracket \/ byte = b_comma THEN
        IF ~st.any_digits /\ (byte = b_comma \/ values # << >>)
        THEN [st EXCEPT !.at = "return", !.err = "missing integer in list"]
        ELSE [st EXCEPT !.at = "after", !.done = (byte = b_rbracket)]
    ELSE IF byte = b_minus THEN
        IF st.negative \/ st.any_digits
        THEN [st EXCEPT !.at = "return",
                        !.err = "misplaced minus sign in integer list"]
        ELSE [st EXCEPT !.negative = TRUE]
    ELSE IF byte < b_0 \/ byte > b_9
    THEN [st EXCEPT !.at = "return", !.err = "invalid byte in list integer"]
    ELSE [st EXCEPT !.value = st.value * 10 + (byte - b_0),
                    !.any_digits = TRUE]

\* one pass of the for loop of read_list_of_i16s on one byte
ListIntStep(st, byte, values) ==
    IF byte = b_rbracket \/ byte = b_comma THEN
        IF ~st.any_digits /\ (byte = b_comma \/ values # << >>)
        THEN [st EXCEPT !.at = "return", !.err = "missing integer in list"]
        ELSE [st EXCEPT !.at = "after", !.done = (byte = b_rbracket)]
    ELSE IF byte = b_minus THEN
        IF st.negative \/ st.any_digits
        THEN [st EXCEPT !.at = "return",
                        !.err = "misplaced minus sign in integer list"]
        ELSE [st EXCEPT !.negative = TRUE]
    ELSE IF byte < b_0 \/ byte > b_9
    THEN [st EXCEPT !.at = "return", !.err = "invalid byte in list integer"]
    ELSE
        LET value == st.value * 10 + (byte - b_0) IN
        [st EXCEPT !.value = value, !.any_digits = TRUE,
                   !.at = IF value > 32768 THEN "after" ELSE "loop"]

RECURSIVE ListIntLoop(_, _, _)
\* the for loop over reader.by_ref().bytes(), left by break, by return or
\* because the input ends
ListIntLoop(st, s, values) ==
    IF s = << >> THEN [st |-> [st EXCEPT !.at = "after"], rest |-> s]
    ELSE
        LET next == ListIntStep(st, Head(s), values) IN
        IF next.at = "loop" THEN ListIntLoop(next, Tail(s), values)
        ELSE [st |-> next, rest |-> Tail(s)]

\* the function does not return: debug_assert! panics where debug
\* assertions are compiled in, and without them while !done runs again on
\* an input that has ended
NoReturn(rest) ==
    [kind |-> "noreturn", err |-> "debug assertion failed or endless loop",
     rest |-> rest]

\* a magnitude of at most 0x8000 with either sign
fits_i16_magnitude(value) == value <= 32768 /\ value >= 0 - 32768

\* value <= i16::MAX as i32 && value >= i16::MIN as i32
fits_i16(value) == value <= 32767 /\ value >= 0 - 32768

RECURSIVE ListWhileLoop(_, _)
\* while !done { ... } of read_list_of_i16s, entered with done = false
ListWhileLoop(values, s) ==
    LET end == ListIntLoop(ListIntStart, s, values)
        st == end.st
        value == IF st.negative THEN -st.value ELSE st.value
    IN
    IF st.at = "return" THEN RErr(st.err, end.rest)
    ELSE IF st.any_digits THEN
        IF ~fits_i16(value)
        THEN RErr("list integer value is out of range", end.rest)
        ELSE IF st.done THEN ROk(Append(values, value), end.rest)
        ELSE Bind(read_exactly(end.rest, <<b_space>>), LAMBDA unit, rest :
                ListWhileLoop(Append(values, value), rest))
    ELSE IF values = << >> /\ st.done THEN ROk(values, end.rest)
    ELSE NoReturn(end.rest)

read_list_of_i16s(s) ==
    Bind(read_exactly(s, <<b_lbracket>>), LAMBDA unit, rest :
        ListWhileLoop(<< >>, rest))

---------------------------------------------------------------------------
(* Palette (src/internal/palette.rs): 16 slots of <<r, g, b, a>>. *)

DEFAULT_PALETTE ==
    << <<0, 0, 0, 0>>, <<0, 0, 0, 255>>, <<127, 0, 0, 255>>,
       <<255, 0, 0, 255>>, <<0, 127, 0, 255>>, <<0, 255, 0, 255>>,
       <<127, 127, 0, 255>>, <<255, 255, 0, 255>>, <<0, 0, 127, 255>>,
       <<0, 0, 255, 255>>, <<127, 0, 127, 255>>, <<255, 0, 255, 255>>,
       <<0, 127, 127, 255>>, <<0, 255, 255, 255>>, <<127, 127, 127, 255>>,
       <<255, 255, 255, 255>> >>

\* Palette::new([(0, 0, 0, 0); 16])
EmptyPalette == [i \in 1..16 |-> <<0, 0, 0, 0>>]

\* Palette::set: slot colour (0..15) becomes rgba
Palette_set(p, color, rgba) == [p EXCEPT ![color + 1] = rgba]

\* the match on digits.len() in Palette::read; the digits are values 0..15
PaletteFieldWithoutShorthand(digits) ==
    CASE Len(digits) = 0 -> Ok(<<0, 0, 0, 0>>)
      [] Len(digits) = 1 ->
            LET gray == digits[1] * 16 IN Ok(<<gray, gray, gray, 255>>)
      [] Len(digits) = 2 ->
            LET gray == digits[1] * 16 + digits[2]
            IN Ok(<<gray, gray, gray, 255>>)
      [] Len(digits) = 3 ->
            Ok(<<digits[1] * 16, digits[2] * 16, digits[3] * 16, 255>>)
      [] Len(digits) = 4 ->
            Ok(<<digits[1] * 16, digits[2] * 16, digits[3] * 16,
                 digits[4] * 16>>)
      [] Len(digits) = 5 ->
            Ok(<<digits[1] * 16, digits[2] * 16, digits[3] * 16,
                 digits[4] * 16 + digits[5]>>)
      [] Len(digits) = 6 ->
            Ok(<<digits[1] * 16 + digits[2], digits[3] * 16 + digits[4],
                 digits[5] * 16 + digits[6], 255>>)
      [] Len(digits) = 7 ->
            Ok(<<digits[1] * 16 + digits[2], digits[3] * 16 + digits[4],
                 digits[5] * 16 + digits[6], digits[7] * 16>>)
      [] Len(digits) = 8 ->
            Ok(<<digits[1] * 16 + digits[2], digits[3] * 16 + digits[4],
                 digits[5] * 16 + digits[6], digits[7] * 16 + digits[8]>>)
      [] OTHER -> Err("too many digits in palette color")

PaletteField(digits) ==
    CASE Len(digits) = 0 -> Ok(<<0, 0, 0, 0>>)
      [] Len(digits) = 1 ->
            LET gray == digits[1] * 17 IN Ok(<<gray, gray, gray, 255>>)
      [] Len(digits) = 2 ->
            LET gray == digits[1] * 16 + digits[2]
            IN Ok(<<gray, gray, gray, 255>>)
      [] Len(digits) = 3 ->
            Ok(<<digits[1] * 17, digits[2] * 17, digits[3] * 17, 255>>)
      [] Len(digits) = 4 ->
            Ok(<<digits[1] * 17, digits[2] * 17, digits[3] * 17,
                 digits[4] * 17>>)
      [] Len(digits) = 5 ->
            Ok(<<digits[1] * 17, digits[2] * 17, digits[3] * 17,
                 digits[4] * 16 + digits[5]>>)
      [] Len(digits) = 6 ->
            Ok(<<digits[1] * 16 + digits[2], digits[3] * 16 + digits[4],
                 digits[5] * 16 + digits[6], 255>>)
      [] Len(digits) = 7 ->
            Ok(<<digits[1] * 16 + digits[2], digits[3] * 16 + digits[4],
                 digits[5] * 16 + digits[6], digits[7] * 17>>)
      [] Len(digits) = 8 ->
            Ok(<<digits[1] * 16 + digits[2], digits[3] * 16 + digits[4],
                 digits[5] * 16 + digits[6], digits[7] * 16 + digits[8]>>)
      [] OTHER -> Err("too many digits in palette color")

RECURSIVE PaletteReadLoop(_, _, _)
\* the passes index..15 of the loop of Palette::read
PaletteReadLoop(p, index, s) ==
    IF index = 16 THEN ROk(p, s)
    ELSE
        LET terminator == IF index = 15 THEN NL ELSE b_semicolon
            digits == read_hex_digits(s, terminator)
        IN
        IF digits.kind = "err" THEN digits
        ELSE
            LET rgba == PaletteField(digits.val) IN
            IF rgba.kind = "err" THEN RErr(rgba.err, digits.rest)
            ELSE PaletteReadLoop([p EXCEPT ![index + 1] = rgba.val],
                                 index + 1, digits.rest)

Palette_read(s) == PaletteReadLoop(EmptyPalette, 0, s)

\* the digits Palette::write emits for one slot
PaletteFieldText(rgba) ==
    LET r == rgba[1]
        g == rgba[2]
        b == rgba[3]
        a == rgba[4]
        short == r % 17 = 0 /\ g % 17 = 0 /\ b % 17 = 0
        X1(n) == FormatUpperHex(n, 1)
        X2(n) == FormatUpperHex(n, 2)
    IN
    IF a = 0 THEN << >>
    ELSE IF a = 255 THEN
        IF r = g /\ g = b THEN
            IF r % 17 = 0 THEN X1(r \div 17) ELSE X2(r)
        ELSE
            IF short THEN X1(r \div 17) \o X1(g \div 17) \o X1(b \div 17)
            ELSE X2(r) \o X2(g) \o X2(b)
    ELSE IF a % 17 = 0 THEN
        IF short
        THEN X1(r \div 17) \o X1(g \div 17) \o X1(b \div 17) \o X1(a \div 17)
        ELSE X2(r) \o X2(g) \o X2(b) \o X1(a \div 17)
    ELSE
        IF short THEN X1(r \div 17) \o X1(g \div 17) \o X1(b \div 17) \o X2(a)
        ELSE X2(r) \o X2(g) \o X2(b) \o X2(a)

RECURSIVE PaletteWriteLoop(_, _)
\* the passes index..15 of the loop of Palette::write
PaletteWriteLoop(p, index) ==
    IF index = 16 THEN << >>
    ELSE PaletteFieldText(p[index + 1])
            \o << IF index = 15 THEN NL ELSE b_semicolon >>
            \o PaletteWriteLoop(p, index + 1)

Palette_write(p) == PaletteWriteLoop(p, 0)

---------------------------------------------------------------------------
(* Image: width, height, row-major pixels (colours 0..15), a tag (a string *)
(* as the sequence of its Unicode scalar values) and metadata (i16s).      *)

\* the 32-bit product of two 16-bit values, as its two 16-bit halves
Mul16(x, y) ==
    LET t0 == (x % 256) * y
        t1 == (x \div 256) * y
        low == t0 + (t1 % 256) * 256
    IN  U32((t1 \div 256 + low \div 65536) % 65536, low % 65536)

\* the low 16 bits of the product of two 16-bit values
MulLow16(x, y) == Mul16(x, y).lo

\* a * b in u32 arithmetic without overflow checks (a, b below 2^31)
wrapping_mul(a, b) ==
    LET low == Mul16(a % 65536, b % 65536)
        cross == MulLow16(a \div 65536, b % 65536)
                    + MulLow16(a % 65536, b \div 65536)
    IN  U32((low.hi + cross) % 65536, low.lo)

\* a * b does not fit u32
mul_overflows(a, b) ==
    /\ a # 0
    /\ b # 0
    /\ \/ (a \div 65536 > 0 /\ b \div 65536 > 0)
       \/ LET low == Mul16(a % 65536, b % 65536)
              x == Mul16(a \div 65536, b % 65536)
              y == Mul16(a % 65536, b \div 65536)
          IN  x.hi + y.hi + (x.lo + y.lo + low.hi) \div 65536 > 0

\* value as usize, on a target whose usize holds every u32
as_usize(value) == value.hi * 65536 + value.lo

\* Image::new: every pixel transparent, no tag, no metadata; the number of
\* pixels is the product in u32 arithmetic, as a build without overflow
\* checks computes it
Image_new(width, height) ==
    [width |-> width, height |-> height,
     pixels |-> [i \in 1..as_usize(wrapping_mul(width, height)) |-> 0],
     tag |-> << >>, metadata |-> << >>]

\* image[(col, row)] = color
Image_set_pixel(image, col, row, color) ==
    [image EXCEPT !.pixels[row * image.width + col + 1] = color]

Image_set_tag(image, tag) == [image EXCEPT !.tag = tag]

Image_set_metadata(image, metadata) == [image EXCEPT !.metadata = metadata]

RECURSIVE ImageWriteRows(_, _)
\* each row from row on: its pixels as colour characters, then a newline
ImageWriteRows(image, row) ==
    IF row >= image.height THEN << >>
    ELSE [col \in 1..image.width |->
                to_byte(image.pixels[row * image.width + col])]
            \o << NL >> \o ImageWriteRows(image, row + 1)

\* Image::write: the rows; an image without pixels writes nothing, whatever
\* its height
Image_write(image) ==
    IF image.width = 0 THEN << >> ELSE ImageWriteRows(image, 0)

RECURSIVE RowColors(_, _)
\* Color::from_byte on every byte of a row, stopping at the first error
RowColors(colors, buffer) ==
    IF buffer = << >> THEN Ok(colors)
    ELSE
        LET color == from_byte(Head(buffer)) IN
        IF color.kind = "err" THEN color
        ELSE RowColors(Append(colors, color.val), Tail(buffer))

RECURSIVE ImageReadRowsBottomUp(_, _, _, _, _)
\* a reading that stores each row line before the rows read so far
ImageReadRowsBottomUp(pixels, row, width, height, s) ==
    IF row >= height THEN ROk(pixels, s)
    ELSE
        Bind(read_exact(s, width), LAMBDA buffer, s1 :
            LET colors == RowColors(<< >>, buffer) IN
            IF colors.kind = "err" THEN RErr(colors.err, s1)
            ELSE Bind(read_exactly(s1, << NL >>), LAMBDA unit, s2 :
                    ImageReadRowsBottomUp(colors.val \o pixels, row + 1,
                                          width, height, s2)))

RECURSIVE ImageReadRows(_, _, _, _, _)
ImageReadRows(pixels, row, width, height, s) ==
    IF row >= height THEN ROk(pixels, s)
    ELSE
        Bind(read_exact(s, width), LAMBDA buffer, s1 :
            LET colors == RowColors(<< >>, buffer) IN
            IF colors.kind = "err" THEN RErr(colors.err, s1)
            ELSE Bind(read_exactly(s1, << NL >>), LAMBDA unit, s2 :
                    ImageReadRows(pixels \o colors.val, row + 1,
                                  width, height, s2)))

\* Image::read: height rows of width characters; an image without pixels
\* reads nothing, whatever its height
Image_read(s, width, height) ==
    Bind(IF width = 0 THEN ROk(<< >>, s)
         ELSE ImageReadRows(<< >>, 0, width, height, s),
         LAMBDA pixels, rest :
            ROk([width |-> width, height |-> height, pixels |-> pixels,
                 tag |-> << >>, metadata |-> << >>], rest))

---------------------------------------------------------------------------
(* Collection (src/internal/collect.rs): palettes and images.              *)

FLAG_INDIVIDUAL_DIMENSIONS == 1
FLAG_STRING_TAGS == 2
FLAG_METADATA_INTS == 4

\* the literal texts of the format
t_ahi == Bytes(<<"a", "h", "i">>)
t_w == Bytes(<<"w">>)
t_h == Bytes(<<"h">>)
t_n == Bytes(<<"n">>)
t_f == Bytes(<<"f">>)
t_p == Bytes(<<"p">>)
t_i == Bytes(<<"i">>)
t_ahi0_w == Bytes(<<"a", "h", "i", "0", " ", "w">>)
t_sp_w == Bytes(<<" ", "w">>)
t_sp_h == Bytes(<<" ", "h">>)
t_sp_n == Bytes(<<" ", "n">>)
t_ahi1_f == Bytes(<<"a", "h", "i", "1", " ", "f">>)
t_sp_p == Bytes(<<" ", "p">>)
t_sp_i == Bytes(<<" ", "i">>)

EmptyCollection == [palettes |-> << >>, images |-> << >>]

LowerHexDigit(i) == IF i < 10 THEN b_0 + i ELSE b_a + (i - 10)

RECURSIVE FormatLowerHex(_)
FormatLowerHex(n) ==
    IF n < 16 THEN << LowerHexDigit(n) >>
    ELSE Append(FormatLowerHex(n \div 16), LowerHexDigit(n % 16))

\* char::escape_default, as the bytes of the escaped text
escape_default(chr) ==
    IF chr = TAB THEN << b_backslash, b_t >>
    ELSE IF chr = CR THEN << b_backslash, b_r >>
    ELSE IF chr = NL THEN << b_backslash, b_n >>
    ELSE IF chr = b_apostrophe \/ chr = b_quote \/ chr = b_backslash
    THEN << b_backslash, chr >>
    ELSE IF chr >= b_space /\ chr <= b_tilde THEN << chr >>
    ELSE << b_backslash, b_u, b_lbrace >> \o FormatLowerHex(chr)
            \o << b_rbrace >>

\* Option<(u32, u32)>
NoSize == [some |-> FALSE]
SomeSize(width, height) ==
    [some |-> TRUE, width |-> width, height |-> height]

global_size(images) ==
    IF images = << >> THEN SomeSize(0, 0)
    ELSE IF \E i \in 1..Len(images) :
                \/ images[i].width # images[1].width
                \/ images[i].height # images[1].height
    THEN NoSize
    ELSE SomeSize(images[1].width, images[1].height)

\* tags are never written
has_no_string_tags(images) == FALSE

has_string_tags(images) == \E i \in 1..Len(images) : images[i].tag # << >>

\* metadata is reported when a tag is present
has_metadata_from_tags(images) ==
    \E i \in 1..Len(images) : images[i].tag # << >>

has_metadata(images) ==
    \E i \in 1..Len(images) : images[i].metadata # << >>

\* a writer that never writes version 0
write_version_one(c) == 1

write_version(c) ==
    IF /\ c.palettes = << >>
       /\ global_size(c.images).some
       /\ ~has_string_tags(c.images)
       /\ ~has_metadata(c.images)
    THEN 0 ELSE 1

write_flags(images) ==
    (IF ~global_size(images).some THEN FLAG_INDIVIDUAL_DIMENSIONS ELSE 0)
    + (IF has_string_tags(images) THEN FLAG_STRING_TAGS ELSE 0)
    + (IF has_metadata(images) THEN FLAG_METADATA_INTS ELSE 0)

\* the first line of the file
WriteHeader(c) ==
    LET size == global_size(c.images) IN
    IF write_version(c) = 0 THEN
        t_ahi0_w \o FormatUnsigned(size.width)
            \o t_sp_h \o FormatUnsigned(size.height)
            \o t_sp_n \o FormatUnsigned(Len(c.images))
            \o << NL >>
    ELSE
        t_ahi1_f
            \o FormatUpperHex(write_flags(c.images), 1)
            \o t_sp_p \o FormatUnsigned(Len(c.palettes))
            \o t_sp_i \o FormatUnsigned(Len(c.images))
            \o (IF size.some
                THEN t_sp_w \o FormatUnsigned(size.width)
                        \o t_sp_h \o FormatUnsigned(size.height)
                ELSE << >>)
            \o << NL >>

RECURSIVE WritePalettes(_, _)
WritePalettes(palettes, i) ==
    IF i > Len(palettes) THEN << >>
    ELSE Palette_write(palettes[i]) \o WritePalettes(palettes, i + 1)

RECURSIVE WriteEscaped(_)
WriteEscaped(tag) ==
    IF tag = << >> THEN << >>
    ELSE escape_default(Head(tag)) \o WriteEscaped(Tail(tag))

RECURSIVE WriteMetadataValues(_, _)
WriteMetadataValues(metadata, first) ==
    IF metadata = << >> THEN << >>
    ELSE (IF first THEN << >> ELSE << b_comma, b_space >>)
            \o FormatDecimal(Head(metadata))
            \o WriteMetadataValues(Tail(metadata), FALSE)

\* a block that holds the metadata line before the tag line
WriteImageMetadataFirst(image, images) ==
    << NL >>
    \o (IF has_metadata(images)
        THEN << b_lbracket >> \o WriteMetadataValues(image.metadata, TRUE)
                \o << b_rbracket, NL >>
        ELSE << >>)
    \o (IF has_string_tags(images)
        THEN << b_quote >> \o WriteEscaped(image.tag) \o << b_quote, NL >>
        ELSE << >>)
    \o (IF ~global_size(images).some
        THEN t_w \o FormatUnsigned(image.width)
                \o t_sp_h \o FormatUnsigned(image.height)
                \o << NL >>
        ELSE << >>)
    \o Image_write(image)

\* one pass of for image in self.images.iter()
WriteImage(image, images) ==
    << NL >>
    \o (IF has_string_tags(images)
        THEN << b_quote >> \o WriteEscaped(image.tag) \o << b_quote, NL >>
        ELSE << >>)
    \o (IF has_metadata(images)
        THEN << b_lbracket >> \o WriteMetadataValues(image.metadata, TRUE)
                \o << b_rbracket, NL >>
        ELSE << >>)
    \o (IF ~global_size(images).some
        THEN t_w \o FormatUnsigned(image.width)
                \o t_sp_h \o FormatUnsigned(image.height)
                \o << NL >>
        ELSE << >>)
    \o Image_write(image)

RECURSIVE WriteImages(_, _)
WriteImages(images, i) ==
    IF i > Len(images) THEN << >>
    ELSE WriteImage(images[i], images) \o WriteImages(images, i + 1)

Collection_write(c) ==
    WriteHeader(c)
    \o (IF c.palettes # << >>
        THEN << NL >> \o WritePalettes(c.palettes, 1) ELSE << >>)
    \o WriteImages(c.images, 1)

\* flags & flag != 0, for a flag that is a power of two below 0x10000
HasFlag(flags, flag) == (flags.lo \div flag) % 2 = 1

\* a reader of the header line that also takes global dimensions after the
\* image count when the flags ask for individual ones
ReadHeaderAnySize(s) ==
    Bind(read_exactly(s, t_ahi), LAMBDA u0, s0 :
    Bind(read_header_uint(s0, b_space), LAMBDA version, s1 :
    IF version # 0 /\ version # 1 THEN RErr("unsupported AHI version", s1)
    ELSE IF version = 0 THEN
        Bind(read_exactly(s1, t_w), LAMBDA u1, s2 :
        Bind(read_header_uint(s2, b_space), LAMBDA width, s3 :
        Bind(read_exactly(s3, t_h), LAMBDA u2, s4 :
        Bind(read_header_uint(s4, b_space), LAMBDA height, s5 :
        Bind(read_exactly(s5, t_n), LAMBDA u3, s6 :
        Bind(read_header_uint(s6, NL), LAMBDA num_images, s7 :
            ROk([version |-> 0, flags |-> U32(0, 0), num_palettes |-> 0,
                 num_images |-> num_images, global_width |-> width,
                 global_height |-> height], s7)))))))
    ELSE
        Bind(read_exactly(s1, t_f), LAMBDA u1, s2 :
        Bind(read_hex_u32(s2, b_space), LAMBDA flags, s3 :
        Bind(read_exactly(s3, t_p), LAMBDA u2, s4 :
        Bind(read_header_uint(s4, b_space), LAMBDA num_palettes, s5 :
        Bind(read_exactly(s5, t_i), LAMBDA u3, s6 :
        IF HasFlag(flags, FLAG_INDIVIDUAL_DIMENSIONS)
                /\ read_header_uint(s6, NL).kind = "ok" THEN
            Bind(read_header_uint(s6, NL), LAMBDA num_images, s7 :
                ROk([version |-> 1, flags |-> flags,
                     num_palettes |-> num_palettes,
                     num_images |-> num_images, global_width |-> 0,
                     global_height |-> 0], s7))
        ELSE
            Bind(read_header_uint(s6, b_space), LAMBDA num_images, s7 :
            Bind(read_exactly(s7, t_w), LAMBDA u4, s8 :
            Bind(read_header_uint(s8, b_space), LAMBDA width, s9 :
            Bind(read_exactly(s9, t_h), LAMBDA u5, s10 :
            Bind(read_header_uint(s10, NL), LAMBDA height, s11 :
                ROk([version |-> 1, flags |-> flags,
                     num_palettes |-> num_palettes,
                     num_images |-> num_images, global_width |-> width,
                     global_height |-> height], s11)))))))))))))

\* the first line of the file: version, flags, counts and the global size
ReadHeader(s) ==
    Bind(read_exactly(s, t_ahi), LAMBDA u0, s0 :
    Bind(read_header_uint(s0, b_space), LAMBDA version, s1 :
    IF version # 0 /\ version # 1 THEN RErr("unsupported AHI version", s1)
    ELSE IF version = 0 THEN
        Bind(read_exactly(s1, t_w), LAMBDA u1, s2 :
        Bind(read_header_uint(s2, b_space), LAMBDA width, s3 :
        Bind(read_exactly(s3, t_h), LAMBDA u2, s4 :
        Bind(read_header_uint(s4, b_space), LAMBDA height, s5 :
        Bind(read_exactly(s5, t_n), LAMBDA u3, s6 :
        Bind(read_header_uint(s6, NL), LAMBDA num_images, s7 :
            ROk([version |-> 0, flags |-> U32(0, 0), num_palettes |-> 0,
                 num_images |-> num_images, global_width |-> width,
                 global_height |-> height], s7)))))))
    ELSE
        Bind(read_exactly(s1, t_f), LAMBDA u1, s2 :
        Bind(read_hex_u32(s2, b_space), LAMBDA flags, s3 :
        Bind(read_exactly(s3, t_p), LAMBDA u2, s4 :
        Bind(read_header_uint(s4, b_space), LAMBDA num_palettes, s5 :
        Bind(read_exactly(s5, t_i), LAMBDA u3, s6 :
        IF HasFlag(flags, FLAG_INDIVIDUAL_DIMENSIONS) THEN
            Bind(read_header_uint(s6, NL), LAMBDA num_images, s7 :
                ROk([version |-> 1, flags |-> flags,
                     num_palettes |-> num_palettes,
                     num_images |-> num_images, global_width |-> 0,
                     global_height |-> 0], s7))
        ELSE
            Bind(read_header_uint(s6, b_space), LAMBDA num_images, s7 :
            Bind(read_exactly(s7, t_w), LAMBDA u4, s8 :
            Bind(read_header_uint(s8, b_space), LAMBDA width, s9 :
            Bind(read_exactly(s9, t_h), LAMBDA u5, s10 :
            Bind(read_header_uint(s10, NL), LAMBDA height, s11 :
                ROk([version |-> 1, flags |-> flags,
                     num_palettes |-> num_palettes,
                     num_images |-> num_images, global_width |-> width,
                     global_height |-> height], s11)))))))))))))

RECURSIVE ReadPalettes(_, _, _)
\* for _ in 0..num_palettes { palettes.push(Palette::read(reader)?) }
ReadPalettes(palettes, n, s) ==
    IF n = 0 THEN ROk(palettes, s)
    ELSE Bind(Palette_read(s), LAMBDA p, rest :
            ReadPalettes(Append(palettes, p), n - 1, rest))

\* one pass of for _ in 0..num_images
ReadImage(header, s) ==
    Bind(read_exactly(s, << NL >>), LAMBDA u0, s0 :
    Bind(IF HasFlag(header.flags, FLAG_STRING_TAGS)
         THEN Bind(read_quoted_string(s0), LAMBDA string, r :
                Bind(read_exactly(r, << NL >>), LAMBDA u1, r1 :
                    ROk(string, r1)))
         ELSE ROk(<< >>, s0), LAMBDA tag, s1 :
    Bind(IF HasFlag(header.flags, FLAG_METADATA_INTS)
         THEN Bind(read_list_of_i16s(s1), LAMBDA values, r :
                Bind(read_exactly(r, << NL >>), LAMBDA u2, r1 :
                    ROk(values, r1)))
         ELSE ROk(<< >>, s1), LAMBDA metadata, s2 :
    Bind(IF HasFlag(header.flags, FLAG_INDIVIDUAL_DIMENSIONS)
         THEN Bind(read_exactly(s2, t_w), LAMBDA u3, r :
              Bind(read_header_uint(r, b_space), LAMBDA width, r1 :
              Bind(read_exactly(r1, t_h), LAMBDA u4, r2 :
              Bind(read_header_uint(r2, NL), LAMBDA height, r3 :
                ROk(<<width, height>>, r3)))))
         ELSE ROk(<<header.global_width, header.global_height>>, s2),
         LAMBDA size, s3 :
    Bind(Image_read(s3, size[1], size[2]), LAMBDA image, s4 :
        ROk(Image_set_metadata(Image_set_tag(image, tag), metadata),
            s4))))))

RECURSIVE ReadImages(_, _, _, _)
ReadImages(images, n, header, s) ==
    IF n = 0 THEN ROk(images, s)
    ELSE Bind(ReadImage(header, s), LAMBDA image, rest :
            ReadImages(Append(images, image), n - 1, header, rest))

Collection_read(s) ==
    Bind(ReadHeader(s), LAMBDA header, s1 :
    Bind(IF header.num_palettes > 0 THEN read_exactly(s1, << NL >>)
         ELSE ROk(<< >>, s1), LAMBDA u0, s2 :
    Bind(ReadPalettes(<< >>, header.num_palettes, s2),
         LAMBDA palettes, s3 :
    Bind(ReadImages(<< >>, header.num_images, header, s3),
         LAMBDA images, s4 :
        ROk([palettes |-> palettes, images |-> images], s4)))))

---------------------------------------------------------------------------
(* Image operations (src/internal/image.rs). The images of the model hold  *)
(* either width * height pixels or, after a product that wrapped, none.    *)

\* a thread that panicked
Panic(msg) == [kind |-> "panic", err |-> msg]

\* the outcomes of Image::new: the product of width and height panics when
\* it overflows in a build with overflow checks, and wraps in one without
Image_new_outcomes(width, height) ==
    { Ok(Image_new(width, height)) }
    \cup (IF mul_overflows(width, height)
          THEN { Panic("attempt to multiply with overflow") } ELSE {})

\* a loop over every pixel position of the image runs at least once and the
\* image holds no pixel: the first access is out of the bounds of the slice
FirstAccessFails(image) ==
    image.width > 0 /\ image.height > 0 /\ image.pixels = << >>

\* the number of passes of a loop nest over height rows and width columns
Passes(width, height) ==
    IF width = 0 \/ height = 0 THEN 0 ELSE width * height

OutOfBounds == Panic("index out of bounds")

\* an index of an image that looks only at where the pixel would be in the
\* buffer
Image_index_by_offset(image, col, row) ==
    IF row * image.width + col >= Len(image.pixels)
    THEN Panic("index out of range")
    ELSE Ok(image.pixels[row * image.width + col + 1])

\* image[(col, row)]: the pixel, or a panic
Image_index(image, col, row) ==
    IF col >= image.width \/ row >= image.height
    THEN Panic("index out of range")
    ELSE IF row * image.width + col >= Len(image.pixels) THEN OutOfBounds
    ELSE Ok(image.pixels[row * image.width + col + 1])

\* image[(col, row)] = color: the image with the pixel assigned, or a panic
Image_index_mut(image, col, row, color) ==
    IF col >= image.width \/ row >= image.height
    THEN Panic("index out of range")
    ELSE IF row * image.width + col >= Len(image.pixels) THEN OutOfBounds
    ELSE Ok([image EXCEPT !.pixels[row * image.width + col + 1] = color])

Min(a, b) == IF a < b THEN a ELSE b
Max(a, b) == IF a > b THEN a ELSE b

\* Image::clear
Image_clear(image) ==
    Ok([image EXCEPT !.pixels = [k \in 1..Len(image.pixels) |-> 0]])

\* the greatest and the least i32
I32_MAX == 2147483647
I32_MIN == (0 - I32_MAX) - 1

\* `value as i32` of a u32: the upper half of the u32 range is negative
as_i32(value) ==
    IF value.hi >= 32768 THEN (value.hi - 65536) * 65536 + value.lo
    ELSE value.hi * 65536 + value.lo

\* a + b in i32: whether it overflows, and the sum modulo 2^32
add_overflows(a, b) ==
    IF b >= 0 THEN a > I32_MAX - b ELSE a < I32_MIN - b
wrapping_add(a, b) ==
    IF ~add_overflows(a, b) THEN a + b
    ELSE IF b >= 0 THEN ((a - I32_MAX) - 1) + ((b - I32_MAX) - 1)
    ELSE (a + I32_MAX + 1) + (b + I32_MAX + 1)

\* -a in i32: whether it overflows, and the negation modulo 2^32
neg_overflows(a) == a = I32_MIN
wrapping_neg(a) == IF a = I32_MIN THEN I32_MIN ELSE 0 - a

\* Image::fill_rect
Image_fill_rect(image, x, y, w, h, color, checked) ==
    LET start_row == Min(Max(0, y), image.height)
        end_row == Min(Max(0, wrapping_add(y, as_i32(h))), image.height)
        start_col == Min(Max(0, x), image.width)
        end_col == Min(Max(0, wrapping_add(x, as_i32(w))), image.width)
    IN
    IF checked /\ add_overflows(y, as_i32(h))
    THEN Panic("attempt to add with overflow")
    ELSE IF checked /\ add_overflows(x, as_i32(w))
    THEN Panic("attempt to add with overflow")
    ELSE IF start_row >= end_row \/ start_col >= end_col THEN Ok(image)
    ELSE IF image.pixels = << >> THEN OutOfBounds
    ELSE Ok([image EXCEPT !.pixels =
            [k \in 1..Len(image.pixels) |->
                LET row == (k - 1) \div image.width
                    col == (k - 1) % image.width
                IN  IF /\ row >= start_row
                       /\ row < end_row
                       /\ col >= start_col
                       /\ col < end_col
                    THEN color ELSE image.pixels[k]]])

\* Image::draw: the pixels of src that are not transparent, with the
\* top-left corner of src at (x, y)
Image_draw(image, src, x, y, checked) ==
    LET src_start_row == Min(Max(0, wrapping_neg(y)), src.height)
        src_start_col == Min(Max(0, wrapping_neg(x)), src.width)
        dest_start_row == Min(Max(0, y), image.height)
        dest_start_col == Min(Max(0, x), image.width)
        num_rows == Min(src.height - src_start_row,
                        image.height - dest_start_row)
        num_cols == Min(src.width - src_start_col,
                        image.width - dest_start_col)
        \* the colour of src drawn at (col, row) of the image, 0 outside
        drawn(col, row) ==
            IF /\ row >= dest_start_row
               /\ row < dest_start_row + num_rows
               /\ col >= dest_start_col
               /\ col < dest_start_col + num_cols
            THEN src.pixels[(src_start_row + row - dest_start_row) * src.width
                            + (src_start_col + col - dest_start_col) + 1]
            ELSE 0
    IN
    IF checked /\ (neg_overflows(y) \/ neg_overflows(x))
    THEN Panic("attempt to negate with overflow")
    ELSE IF num_rows = 0 \/ num_cols = 0 THEN Ok(image)
    ELSE IF src.pixels = << >> THEN OutOfBounds
    ELSE IF image.pixels = << >> THEN
        \* every pixel of src is read; the first one that is not transparent
        \* is assigned
        IF \E row \in 0..(num_rows - 1) :
            \E col \in 0..(num_cols - 1) :
                src.pixels[(src_start_row + row) * src.width
                           + src_start_col + col + 1] # 0
        THEN OutOfBounds ELSE Ok(image)
    ELSE Ok([image EXCEPT !.pixels =
            [k \in 1..Len(image.pixels) |->
                LET row == (k - 1) \div image.width
                    col == (k - 1) % image.width
                IN  IF drawn(col, row) # 0 THEN drawn(col, row)
                    ELSE image.pixels[k]]])

\* Image::flip_horz
Image_flip_horz(image) ==
    IF FirstAccessFails(image) THEN OutOfBounds
    ELSE Ok([image EXCEPT !.pixels =
            [k \in 1..Passes(image.width, image.height) |->
                LET row == (k - 1) \div image.width
                    col == (k - 1) % image.width
                    offset == row * image.width
                    index == offset + image.width - col - 1
                IN  image.pixels[index + 1]]])

\* Image::flip_vert
Image_flip_vert(image) ==
    IF FirstAccessFails(image) THEN OutOfBounds
    ELSE Ok([image EXCEPT !.pixels =
            [k \in 1..Passes(image.width, image.height) |->
                LET row == (k - 1) \div image.width
                    col == (k - 1) % image.width
                    offset == (image.height - row - 1) * image.width
                    index == offset + col
                IN  image.pixels[index + 1]]])

\* Image::rotate_cw: the outer loop runs over the old width, the inner one
\* over the old height
Image_rotate_cw(image) ==
    IF FirstAccessFails(image) THEN OutOfBounds
    ELSE Ok([image EXCEPT
            !.width = image.height,
            !.height = image.width,
            !.pixels =
            [k \in 1..Passes(image.height, image.width) |->
                LET row == (k - 1) \div image.height
                    col == (k - 1) % image.height
                    index == image.width * (image.height - col - 1) + row
                IN  image.pixels[index + 1]]])

\* Image::rotate_ccw
Image_rotate_ccw(image) ==
    IF FirstAccessFails(image) THEN OutOfBounds
    ELSE Ok([image EXCEPT
            !.width = image.height,
            !.height = image.width,
            !.pixels =
            [k \in 1..Passes(image.height, image.width) |->
                LET row == (k - 1) \div image.height
                    col == (k - 1) % image.height
                    index == image.width * col + (image.width - row - 1)
                IN  image.pixels[index + 1]]])

\* Image::crop: a new image of the new size, with the image drawn at (0, 0)
Image_crop_outcomes(image, new_width, new_height) ==
    { IF new_image.kind = "ok" THEN Image_draw(new_image.val, image, 0, 0, FALSE)
      ELSE new_image :
        new_image \in Image_new_outcomes(new_width, new_height) }

\* the outcome of a write: what happened and the bytes written until then
Written(kind, err, output) ==
    [kind |-> kind, err |-> err, output |-> output]

RECURSIVE WriteAllLoopWidthOnly(_, _, _, _, _)
\* a loop that compares the widths only
WriteAllLoopWidthOnly(images, i, width, height, output) ==
    IF i > Len(images) THEN Written("ok", "", output)
    ELSE
        LET image == images[i] IN
        IF image.width # width
        THEN Written("err", "images must all have the same dimensions",
                     output)
        ELSE IF FirstAccessFails(image)
        THEN Written("panic", "index out of bounds", output \o << NL >>)
        ELSE WriteAllLoopWidthOnly(images, i + 1, width, height,
                          output \o << NL >> \o ImageWriteRows(image, 0))

RECURSIVE WriteAllLoopBlankFirst(_, _, _, _, _)
\* a loop that writes the blank line of an image before it compares the
\* sizes
WriteAllLoopBlankFirst(images, i, width, height, output) ==
    IF i > Len(images) THEN Written("ok", "", output)
    ELSE
        LET image == images[i] IN
        IF image.width # width \/ image.height # height
        THEN Written("err", "images must all have the same dimensions",
                     output \o << NL >>)
        ELSE IF FirstAccessFails(image)
        THEN Written("panic", "index out of bounds", output \o << NL >>)
        ELSE WriteAllLoopBlankFirst(images, i + 1, width, height,
                          output \o << NL >> \o ImageWriteRows(image, 0))

RECURSIVE WriteAllLoop(_, _, _, _, _)
\* for image in images, from image i on
WriteAllLoop(images, i, width, height, output) ==
    IF i > Len(images) THEN Written("ok", "", output)
    ELSE
        LET image == images[i] IN
        IF image.width # width \/ image.height # height
        THEN Written("err", "images must all have the same dimensions",
                     output)
        ELSE IF FirstAccessFails(image)
        THEN Written("panic", "index out of bounds", output \o << NL >>)
        ELSE WriteAllLoop(images, i + 1, width, height,
                          output \o << NL >> \o ImageWriteRows(image, 0))

\* Image::write_all
Image_write_all(images) ==
    LET width == IF images = << >> THEN 0 ELSE images[1].width
        height == IF images = << >> THEN 0 ELSE images[1].height
    IN  WriteAllLoop(images, 1, width, height,
            t_ahi0_w \o FormatUnsigned(width)
                \o t_sp_h \o FormatUnsigned(height)
                \o t_sp_n \o FormatUnsigned(Len(images))
                \o << NL >>)

RECURSIVE ReadAllLoop(_, _, _, _, _)
\* for _ in 0..num_images
ReadAllLoop(images, n, width, height, s) ==
    IF n = 0 THEN ROk(images, s)
    ELSE
        Bind(read_exactly(s, << NL >>), LAMBDA u0, s0 :
        Bind(ImageReadRows(<< >>, 0, width, height, s0),
             LAMBDA pixels, s1 :
            ReadAllLoop(Append(images,
                            [width |-> width, height |-> height,
                             pixels |-> pixels,
                             tag |-> << >>, metadata |-> << >>]),
                        n - 1, width, height, s1)))

\* Image::read_all
Image_read_all(s) ==
    Bind(read_exactly(s, t_ahi), LAMBDA u0, s0 :
    Bind(read_header_uint(s0, b_space), LAMBDA version, s1 :
    IF version # 0 THEN RErr("unsupported AHI version", s1)
    ELSE
        Bind(read_exactly(s1, t_w), LAMBDA u1, s2 :
        Bind(read_header_uint(s2, b_space), LAMBDA width, s3 :
        Bind(read_exactly(s3, t_h), LAMBDA u2, s4 :
        Bind(read_header_uint(s4, b_space), LAMBDA height, s5 :
        Bind(read_exactly(s5, t_n), LAMBDA u3, s6 :
        Bind(read_header_uint(s6, NL), LAMBDA num_images, s7 :
            ReadAllLoop(<< >>, num_images, width, height, s7)))))))))

---------------------------------------------------------------------------
(* The colour codec under test: a colour is written, or a byte is loaded   *)
(* from a file, and the byte is decoded.                                   *)

ColorIdle == c_color = 0 /\ c_byte = None /\ c_decoded = None
HeaderIntIdle ==
    /\ hi_term = b_space
    /\ hi_consumed = << >>
    /\ hi_st = HeaderIntStart
    /\ hi_result = None
PaletteIdle ==
    /\ palette = DEFAULT_PALETTE
    /\ pal_sets = 0
    /\ pal_text = << >>
    /\ pal_from = "new"
    /\ pal_result = None
    /\ pal_rewritten = None
CollectionIdle ==
    /\ coll = EmptyCollection
    /\ coll_output = None
    /\ coll_readback = None
ReaderIdle == hu_result = None /\ rd_input = None /\ rd_result = None
ImageIdle == img_list = << >> /\ img_text = None /\ img_result = None
FontIdle == fnt = None /\ fnt_result = None
ArithIdle ==
    /\ ar_header = HeaderIntStart
    /\ ar_list = ListIntStart
    /\ ar_pixels = None

InitColor ==
    /\ c_color \in Colors
    /\ c_byte = None
    /\ c_decoded = None
    /\ HeaderIntIdle
    /\ PaletteIdle
    /\ CollectionIdle
    /\ ReaderIdle
    /\ ImageIdle
    /\ FontIdle
    /\ ArithIdle

ColorToByte ==
    /\ c_byte = None
    /\ c_byte' = Ok(to_byte(c_color))
    /\ UNCHANGED <<c_color, c_decoded>>
    /\ UNCHANGED notColor

ColorLoadByte ==
    /\ c_byte = None
    /\ \E b \in 0..255 : c_byte' = [kind |-> "file", val |-> b]
    /\ UNCHANGED <<c_color, c_decoded>>
    /\ UNCHANGED notColor

ColorFromByte ==
    /\ c_byte # None
    /\ c_decoded = None
    /\ c_decoded' = from_byte(c_byte.val)
    /\ UNCHANGED <<c_color, c_byte>>
    /\ UNCHANGED notColor

NextColor ==
    \/ ColorToByte
    \/ ColorLoadByte
    \/ ColorFromByte

SpecColor == InitColor /\ [][NextColor]_vars

---------------------------------------------------------------------------
(* read_header_int under test: the reader yields one byte at a time, or    *)
(* ends.                                                                   *)

HeaderAlphabet ==
    { Byte(" "), NL, Byte("-"), Byte("0"), Byte("3"), Byte("5"), Byte("6"),
      Byte("9"), Byte("/"), Byte(":"), Byte("x") }

InitHeaderInt ==
    /\ ColorIdle
    /\ PaletteIdle
    /\ CollectionIdle
    /\ ReaderIdle
    /\ ImageIdle
    /\ FontIdle
    /\ ArithIdle
    /\ hi_term \in {b_space, NL}
    /\ hi_consumed = << >>
    /\ hi_st = HeaderIntStart
    /\ hi_result = None

\* the iterator yields Some(Ok(byte))
HeaderIntByte ==
    /\ hi_result = None
    /\ Len(hi_consumed) < MaxHeaderBytes
    /\ \E byte \in HeaderAlphabet :
            /\ hi_consumed' = Append(hi_consumed, byte)
            /\ hi_st' = HeaderIntStep(hi_st, byte, hi_term)
    /\ hi_result' = IF hi_st'.at = "loop" THEN None ELSE HeaderIntFinish(hi_st')
    /\ UNCHANGED <<hi_term, notHeaderInt>>

\* the iterator yields None: the input has ended
HeaderIntEof ==
    /\ hi_result = None
    /\ hi_result' = HeaderIntFinish(hi_st)
    /\ UNCHANGED <<hi_term, hi_consumed, hi_st, notHeaderInt>>

NextHeaderInt ==
    \/ HeaderIntByte
    \/ HeaderIntEof

SpecHeaderInt == InitHeaderInt /\ [][NextHeaderInt]_vars

\* read_header_uint on the bytes that read_header_int was given: once
\* read_header_int has returned, read_header_uint is called on a reader over
\* the same bytes
HeaderUintCall ==
    /\ hi_result # None
    /\ hu_result = None
    /\ hu_result' = Result(read_header_uint(hi_consumed, hi_term))
    /\ UNCHANGED <<rd_input, rd_result, notReader>>

NextHeaderUint ==
    \/ HeaderIntByte
    \/ HeaderIntEof
    \/ HeaderUintCall

SpecHeaderUint == InitHeaderInt /\ [][NextHeaderUint]_vars

---------------------------------------------------------------------------
(* The palette codec under test: a palette is built with Palette::set and  *)
(* written, or a line is loaded from a file; the text is read, and the     *)
(* palette read is written again.                                          *)

InitPalette ==
    /\ ColorIdle
    /\ HeaderIntIdle
    /\ PaletteIdle
    /\ CollectionIdle
    /\ ReaderIdle
    /\ ImageIdle
    /\ FontIdle
    /\ ArithIdle

\* the channel values and the slots that Palette::set is called with
RgbSamples == {0, 17, 127}
AlphaSamples == {0, 17, 127, 255}
SlotSamples == {0, 15}

PaletteSet ==
    /\ pal_from = "new"
    /\ pal_sets < MaxPaletteSets
    /\ \E color \in SlotSamples, r, g, b \in RgbSamples, a \in AlphaSamples :
            palette' = Palette_set(palette, color, <<r, g, b, a>>)
    /\ pal_sets' = pal_sets + 1
    /\ UNCHANGED <<pal_text, pal_from, pal_result, pal_rewritten, notPalette>>

PaletteWrite ==
    /\ pal_from = "new"
    /\ pal_text' = Palette_write(palette)
    /\ pal_from' = "written"
    /\ UNCHANGED <<palette, pal_sets, pal_result, pal_rewritten, notPalette>>

\* the fields of the line that tests::read_palette reads
TestLineFields ==
    << << "C" >>, << >>, << "7", "F" >>, << "F", "0", "0" >>,
       << "1", "E", "B", "A" >>, << "C", "2", "C", "7", "F" >>,
       << "F", "F", "7", "F", "0", "0" >>, << "0" >>, << "F" >>,
       << "3", "F", "7", "F", "B", "F", "9" >>,
       << "0", "1", "2", "3", "4", "5", "6", "7" >>,
       << "1" >>, << "2" >>, << "3" >>, << "4" >>, << "5" >> >>

RECURSIVE JoinFields(_, _)
\* the line of the fields index..15, each followed by ';', the last by '\n'
JoinFields(fields, index) ==
    IF index = 16 THEN << >>
    ELSE fields[index + 1]
            \o << IF index = 15 THEN NL ELSE b_semicolon >>
            \o JoinFields(fields, index + 1)

TestLineBytes == [i \in 1..16 |-> Bytes(TestLineFields[i])]

TestLine == JoinFields(TestLineBytes, 0)

\* the hex digits that a loaded field is made of
FieldAlphabet == { Byte("0"), Byte("c"), Byte("F") }

\* the fields of at most n digits over FieldAlphabet
FieldsUpTo(n) == UNION { [1..k -> FieldAlphabet] : k \in 0..n }

\* the test line with the field of one slot replaced
TestLineWith(slot, field) ==
    JoinFields([i \in 1..16 |-> IF i = slot + 1 THEN field
                                ELSE TestLineBytes[i]], 0)

\* the most digits of a palette field: the last arm of the match that
\* returns a colour
MAX_FIELD_DIGITS == 8

\* a file holding the test line with one field replaced by a field of at
\* most 8 digits
PaletteLoad ==
    /\ pal_from = "new"
    /\ pal_sets = 0
    /\ \E slot \in SlotSamples, field \in FieldsUpTo(MAX_FIELD_DIGITS) :
            pal_text' = TestLineWith(slot, field)
    /\ pal_from' = "loaded"
    /\ UNCHANGED <<palette, pal_sets, pal_result, pal_rewritten, notPalette>>

\* a file holding the test line with one field replaced by a field of more
\* than 8 digits
PaletteLoadLong ==
    /\ pal_from = "new"
    /\ pal_sets = 0
    /\ \E slot \in SlotSamples, digit \in FieldAlphabet,
          n \in (MAX_FIELD_DIGITS + 1)..(MAX_FIELD_DIGITS + MaxExtraDigits) :
            pal_text' = TestLineWith(slot, [i \in 1..n |-> digit])
    /\ pal_from' = "loaded"
    /\ UNCHANGED <<palette, pal_sets, pal_result, pal_rewritten, notPalette>>

\* a file that ends after the first n bytes of the test line
PaletteLoadTruncated ==
    /\ pal_from = "new"
    /\ pal_sets = 0
    /\ \E n \in 0..(Len(TestLine) - 1) : pal_text' = SubSeq(TestLine, 1, n)
    /\ pal_from' = "loaded"
    /\ UNCHANGED <<palette, pal_sets, pal_result, pal_rewritten, notPalette>>

PaletteRead ==
    /\ pal_from \in {"written", "loaded"}
    /\ pal_result = None
    /\ pal_result' = Result(Palette_read(pal_text))
    /\ UNCHANGED <<palette, pal_sets, pal_text, pal_from, pal_rewritten,
                   notPalette>>

\* Palette::write of the palette that Palette::read returned
PaletteRewrite ==
    /\ IsOk(pal_result)
    /\ pal_rewritten = None
    /\ pal_rewritten' = Ok(Palette_write(pal_result.val))
    /\ UNCHANGED <<palette, pal_sets, pal_text, pal_from, pal_result,
                   notPalette>>

NextPalette ==
    \/ PaletteSet
    \/ PaletteWrite
    \/ PaletteLoad
    \/ PaletteLoadLong
    \/ PaletteLoadTruncated
    \/ PaletteRead
    \/ PaletteRewrite

SpecPalette == InitPalette /\ [][NextPalette]_vars

---------------------------------------------------------------------------
(* The collection codec under test: a collection is built with            *)
(* Image::new, pixel assignments, set_tag, set_metadata and pushes to its  *)
(* two public vectors, written, and the bytes written are read back.       *)

InitCollection ==
    /\ ColorIdle
    /\ HeaderIntIdle
    /\ PaletteIdle
    /\ CollectionIdle
    /\ ReaderIdle
    /\ ImageIdle
    /\ FontIdle
    /\ ArithIdle

\* the sizes of the images built: every size of at most MaxPixels pixels
\* with both sides at most MaxDim, and the images without pixels whose one
\* side is the largest header value or one more
ImageSizes ==
    { size \in (0..MaxDim) \X (0..MaxDim) : size[1] * size[2] <= MaxPixels }
    \cup { <<d, 0>> : d \in {MAX_HEADER_VALUE, MAX_HEADER_VALUE + 1} }
    \cup { <<0, d>> : d \in {MAX_HEADER_VALUE, MAX_HEADER_VALUE + 1} }

\* the colour assigned to pixels (a new image is all colour 0)
PixelSamples == {15}

\* tags: ASCII with the quote characters and the backslash, control
\* characters and DEL, and chars beyond ASCII up to the last scalar value
TagSamples ==
    { << >>,
      << b_a, b_quote, b_backslash, b_apostrophe, b_space >>,
      << TAB, NL, CR, 1, 127, 233, 9731, 1114111 >> }

MetadataSamples == { << >>, << 0 - 32768, 32767 >>, << 0, 0 - 1, 5 >> }

PaletteSamples == { DEFAULT_PALETTE }

CollPushImage ==
    /\ coll_output = None
    /\ Len(coll.images) < MaxImages
    /\ \E size \in ImageSizes :
        coll' = [coll EXCEPT
                    !.images = Append(@, Image_new(size[1], size[2]))]
    /\ UNCHANGED <<coll_output, coll_readback, notCollection>>

CollSetPixel ==
    /\ coll_output = None
    /\ \E i \in 1..Len(coll.images) :
        \E k \in 0..(Len(coll.images[i].pixels) - 1) :
            \E color \in PixelSamples :
                LET col == k % coll.images[i].width
                    row == k \div coll.images[i].width
                IN coll' = [coll EXCEPT !.images[i] =
                                Image_set_pixel(@, col, row, color)]
    /\ UNCHANGED <<coll_output, coll_readback, notCollection>>

CollSetTag ==
    /\ coll_output = None
    /\ \E i \in 1..Len(coll.images) :
        \E tag \in TagSamples :
            coll' = [coll EXCEPT !.images[i] = Image_set_tag(@, tag)]
    /\ UNCHANGED <<coll_output, coll_readback, notCollection>>

CollSetMetadata ==
    /\ coll_output = None
    /\ \E i \in 1..Len(coll.images) :
        \E metadata \in MetadataSamples :
            coll' = [coll EXCEPT !.images[i] =
                        Image_set_metadata(@, metadata)]
    /\ UNCHANGED <<coll_output, coll_readback, notCollection>>

CollPushPalette ==
    /\ coll_output = None
    /\ Len(coll.palettes) < MaxPalettes
    /\ \E p \in PaletteSamples :
        coll' = [coll EXCEPT !.palettes = Append(@, p)]
    /\ UNCHANGED <<coll_output, coll_readback, notCollection>>

\* collection.write(&mut output) into a Vec<u8>, which cannot fail
CollWrite ==
    /\ coll_output = None
    /\ coll_output' = Ok(Collection_write(coll))
    /\ UNCHANGED <<coll, coll_readback, notCollection>>

\* Collection::read(&output as &[u8])
CollRead ==
    /\ coll_output # None
    /\ coll_readback = None
    /\ coll_readback' = Result(Collection_read(coll_output.val))
    /\ UNCHANGED <<coll, coll_output, notCollection>>

NextCollection ==
    \/ CollPushImage
    \/ CollSetPixel
    \/ CollSetTag
    \/ CollSetMetadata
    \/ CollPushPalette
    \/ CollWrite
    \/ CollRead

SpecCollection == InitCollection /\ [][NextCollection]_vars

---------------------------------------------------------------------------
(* read_list_of_i16s under test: a text is loaded from a file, the file    *)
(* may end earlier, and the list is read from it.                          *)

\* a loaded file
File(bytes) == [kind |-> "file", val |-> bytes]

\* the elements, separators and closings that the loaded lists are made of
ListElements ==
    { << >>,
      Bytes(<<"-">>),
      Bytes(<<"0">>),
      Bytes(<<"-", "0">>),
      Bytes(<<"7">>),
      Bytes(<<"-", "7">>),
      Bytes(<<"0", "0", "7">>),
      Bytes(<<"3", "2", "7", "6", "7">>),
      Bytes(<<"3", "2", "7", "6", "8">>),
      Bytes(<<"-", "3", "2", "7", "6", "8">>),
      Bytes(<<"-", "3", "2", "7", "6", "9">>),
      Bytes(<<"3", "2", "7", "6", "9">>),
      Bytes(<<"9", "9", "9", "9", "9">>),
      Bytes(<<"3", "2", "7", "6", "7", "0">>),
      Bytes(<<"1", "-">>),
      Bytes(<<"-", "-", "1">>),
      Bytes(<<"1", "x">>),
      Bytes(<<"x">>) }

ListSeparators ==
    { Bytes(<<",", " ">>),
      Bytes(<<",">>),
      Bytes(<<" ">>),
      Bytes(<<",", " ", " ">>) }

ListClosings ==
    { Bytes(<<"]">>),
      << >>,
      Bytes(<<"]", "x">>) }

\* the lists of tests::read_v1_collection_with_metadata, and texts that do
\* not open with a bracket or a digit
ListExtraInputs ==
    { Bytes(<<"[", "1", ",", " ", "-", "2", ",", " ", "3", "]">>),
      Bytes(<<"[", "4", ",", " ", "5", "]">>),
      Bytes(<<"]">>),
      Bytes(<<"1", "]">>),
      Bytes(<<"[", " ", "1", "]">>) }

\* "[" element closing, and "[" element separator element closing
ListInputs ==
    { <<b_lbracket>> \o e \o c : e \in ListElements, c \in ListClosings }
    \cup { <<b_lbracket>> \o e1 \o p \o e2 \o c :
                e1 \in ListElements, p \in ListSeparators,
                e2 \in ListElements, c \in ListClosings }
    \cup ListExtraInputs

\* what a caller sees of a call: the value or the error returned, or, for a
\* call that does not return, the panic of the failed debug_assert! (debug
\* assertions compiled in) or no outcome at all (compiled out: the loop
\* runs forever)
Outcomes(r) ==
    IF r.kind = "noreturn"
    THEN { [kind |-> "panic", err |-> "assertion failed"],
           [kind |-> "hang", err |-> "endless loop"] }
    ELSE { Result(r) }

InitList ==
    /\ ColorIdle
    /\ HeaderIntIdle
    /\ PaletteIdle
    /\ CollectionIdle
    /\ ReaderIdle
    /\ ImageIdle
    /\ FontIdle
    /\ ArithIdle

ListLoad ==
    /\ rd_input = None
    /\ \E bytes \in ListInputs : rd_input' = File(bytes)
    /\ UNCHANGED <<hu_result, rd_result, notReader>>

\* the file ends one byte earlier
ReaderTruncate ==
    /\ rd_input # None
    /\ rd_result = None
    /\ rd_input.val # << >>
    /\ rd_input' = [rd_input EXCEPT
                        !.val = SubSeq(@, 1, Len(@) - 1)]
    /\ UNCHANGED <<hu_result, rd_result, notReader>>

ListRead ==
    /\ rd_input # None
    /\ rd_result = None
    /\ rd_result' \in Outcomes(read_list_of_i16s(rd_input.val))
    /\ UNCHANGED <<hu_result, rd_input, notReader>>

NextList ==
    \/ ListLoad
    \/ ReaderTruncate
    \/ ListRead

SpecList == InitList /\ [][NextList]_vars

---------------------------------------------------------------------------
(* read_quoted_string under test: a text is loaded from a file, the file   *)
(* may end earlier, and the string is read from it.                        *)

\* the items of the loaded strings: plain characters, the six short
\* escapes, \u escapes of scalar values, \u escapes that are no scalar
\* value or are malformed, other escape letters, and bytes outside
\* 0x20..0x7E
StringItems ==
    { Bytes(<<"a">>),
      Bytes(<<"'">>),
      Bytes(<<" ">>),
      Bytes(<<"~">>),
      Bytes(<<"backslash", "backslash">>),
      Bytes(<<"backslash", "'">>),
      Bytes(<<"backslash", "dquote">>),
      Bytes(<<"backslash", "n">>),
      Bytes(<<"backslash", "r">>),
      Bytes(<<"backslash", "t">>),
      Bytes(<<"backslash", "u", "{", "4", "1", "}">>),
      Bytes(<<"backslash", "u", "{", "2", "6", "0", "3", "}">>),
      Bytes(<<"backslash", "u", "{", "1", "0", "F", "F", "F", "F", "}">>),
      Bytes(<<"backslash", "u", "{", "1", "0", "f", "f", "f", "f", "}">>),
      Bytes(<<"backslash", "u", "{", "D", "7", "F", "F", "}">>),
      Bytes(<<"backslash", "u", "{", "E", "0", "0", "0", "}">>),
      Bytes(<<"backslash", "u", "{", "0", "0", "0", "0", "0", "0", "4", "1", "}">>),
      Bytes(<<"backslash", "u", "{", "0", "}">>),
      Bytes(<<"backslash", "u", "{", "1", "1", "0", "0", "0", "0", "}">>),
      Bytes(<<"backslash", "u", "{", "D", "8", "0", "0", "}">>),
      Bytes(<<"backslash", "u", "{", "D", "F", "F", "F", "}">>),
      Bytes(<<"backslash", "u", "{", "F", "F", "F", "F", "F", "F", "F", "F", "}">>),
      Bytes(<<"backslash", "u", "{", "0", "0", "0", "0", "0", "0", "0", "4", "1", "}">>),
      Bytes(<<"backslash", "u", "{", "}">>),
      Bytes(<<"backslash", "u", "4", "1">>),
      Bytes(<<"backslash", "u", "{", "4", "g", "}">>),
      Bytes(<<"backslash", "x">>),
      Bytes(<<"backslash", "0">>),
      <<31>>,
      <<127>>,
      <<128>>,
      <<9>>,
      <<10>>,
      <<255>> }

StringClosings ==
    { Bytes(<<"dquote">>),
      << >>,
      Bytes(<<"dquote", "x">>) }

\* an opening quote, up to two items and a closing; and a text that does
\* not open with a quote
StringInputs ==
    { <<b_quote>> \o c : c \in StringClosings }
    \cup { <<b_quote>> \o i1 \o c : i1 \in StringItems, c \in StringClosings }
    \cup { <<b_quote>> \o i1 \o i2 \o c :
                i1 \in StringItems, i2 \in StringItems,
                c \in StringClosings }
    \cup { <<b_a, b_quote>> }

StringLoad ==
    /\ rd_input = None
    /\ \E bytes \in StringInputs : rd_input' = File(bytes)
    /\ UNCHANGED <<hu_result, rd_result, notReader>>

StringRead ==
    /\ rd_input # None
    /\ rd_result = None
    /\ rd_result' = Result(read_quoted_string(rd_input.val))
    /\ UNCHANGED <<hu_result, rd_input, notReader>>

NextString ==
    \/ StringLoad
    \/ ReaderTruncate
    \/ StringRead

SpecString == InitList /\ [][NextString]_vars

---------------------------------------------------------------------------
(* Collection::read under test: a document is loaded from a file, one of   *)
(* its bytes may be damaged, the file may end earlier, and the collection  *)
(* is read from it.                                                        *)

\* read_empty_v0_collection
doc_empty_v0 ==
    Bytes(<<"a", "h", "i", "0", " ", "w", "0", " ", "h", "0", " ", "n",
        "0">>) \o << NL >>

\* read_empty_v1_collection
doc_empty_v1 ==
    Bytes(<<"a", "h", "i", "1", " ", "f", "0", " ", "p", "0", " ", "i", "0",
        " ", "w", "0", " ", "h", "0">>) \o << NL >>

\* read_v0_collection_with_two_images
doc_two_images ==
    Bytes(<<"a", "h", "i", "0", " ", "w", "2", " ", "h", "2", " ", "n",
        "2">>) \o << NL >>
    \o << NL >>
    \o Bytes(<<"2", "0">>) \o << NL >>
    \o Bytes(<<"5", "D">>) \o << NL >>
    \o << NL >>
    \o Bytes(<<"E", "0">>) \o << NL >>
    \o Bytes(<<"0", "E">>) \o << NL >>

\* read_v1_collection_with_two_palettes_and_one_image
doc_two_palettes ==
    Bytes(<<"a", "h", "i", "1", " ", "f", "0", " ", "p", "2", " ", "i", "1",
        " ", "w", "2", " ", "h", "2">>) \o << NL >>
    \o << NL >>
    \o Bytes(<<"0", ";", "1", ";", "2", ";", "3", ";", "4", ";", "5", ";",
        "6", ";", "7", ";", "8", ";", "9", ";", "A", ";", "B", ";", "C", ";",
        "D", ";", "E", ";", "F">>) \o << NL >>
    \o Bytes(<<";", "0", ";", "F", "0", "0", ";", "F", "7", "0", ";", "F",
        "F", "0", ";", "0", "F", "0", ";", "0", "F", "F", ";", "0", "0", "F",
        ";", "7", "0", "F", ";", "3", ";", "5", ";", "8", ";", "B", ";", "D",
        ";", "F", "0", "F", ";", "F">>) \o << NL >>
    \o << NL >>
    \o Bytes(<<"E", "0">>) \o << NL >>
    \o Bytes(<<"0", "E">>) \o << NL >>

\* read_v1_collection_with_two_different_sized_images
doc_different_sized ==
    Bytes(<<"a", "h", "i", "1", " ", "f", "1", " ", "p", "0", " ", "i",
        "2">>) \o << NL >>
    \o << NL >>
    \o Bytes(<<"w", "4", " ", "h", "2">>) \o << NL >>
    \o Bytes(<<"2", "0", "2", "1">>) \o << NL >>
    \o Bytes(<<"5", "D", "5", "7">>) \o << NL >>
    \o << NL >>
    \o Bytes(<<"w", "2", " ", "h", "3">>) \o << NL >>
    \o Bytes(<<"E", "0">>) \o << NL >>
    \o Bytes(<<"0", "E">>) \o << NL >>
    \o Bytes(<<"F", "1">>) \o << NL >>

\* read_v1_collection_with_some_images_empty
doc_some_images_empty ==
    Bytes(<<"a", "h", "i", "1", " ", "f", "1", " ", "p", "0", " ", "i",
        "5">>) \o << NL >>
    \o << NL >>
    \o Bytes(<<"w", "4", " ", "h", "1">>) \o << NL >>
    \o Bytes(<<"0", "0", "0", "0">>) \o << NL >>
    \o << NL >>
    \o Bytes(<<"w", "4", " ", "h", "0">>) \o << NL >>
    \o << NL >>
    \o Bytes(<<"w", "3", " ", "h", "1">>) \o << NL >>
    \o Bytes(<<"0", "0", "0">>) \o << NL >>
    \o << NL >>
    \o Bytes(<<"w", "0", " ", "h", "4">>) \o << NL >>
    \o << NL >>
    \o Bytes(<<"w", "2", " ", "h", "1">>) \o << NL >>
    \o Bytes(<<"0", "0">>) \o << NL >>

\* read_v1_collection_with_string_tags
doc_string_tags ==
    Bytes(<<"a", "h", "i", "1", " ", "f", "2", " ", "p", "0", " ", "i", "2",
        " ", "w", "2", " ", "h", "1">>) \o << NL >>
    \o << NL >>
    \o Bytes(<<"dquote", "f", "o", "o", "dquote">>) \o << NL >>
    \o Bytes(<<"0", "0">>) \o << NL >>
    \o << NL >>
    \o Bytes(<<"dquote", "S", "n", "o", "w", "m", "a", "n", "backslash", "u",
        "{", "2", "6", "0", "3", "}", "dquote">>) \o << NL >>
    \o Bytes(<<"0", "0">>) \o << NL >>

\* read_v1_collection_with_metadata
doc_metadata ==
    Bytes(<<"a", "h", "i", "1", " ", "f", "4", " ", "p", "0", " ", "i", "2",
        " ", "w", "2", " ", "h", "1">>) \o << NL >>
    \o << NL >>
    \o Bytes(<<"[", "1", ",", " ", "-", "2", ",", " ", "3", "]">>) \o << NL >>
    \o Bytes(<<"0", "0">>) \o << NL >>
    \o << NL >>
    \o Bytes(<<"[", "4", ",", " ", "5", "]">>) \o << NL >>
    \o Bytes(<<"0", "0">>) \o << NL >>

\* read_v1_collection_with_all_flags
doc_all_flags ==
    Bytes(<<"a", "h", "i", "1", " ", "f", "7", " ", "p", "0", " ", "i",
        "2">>) \o << NL >>
    \o << NL >>
    \o Bytes(<<"dquote", "dquote">>) \o << NL >>
    \o Bytes(<<"[", "1", ",", " ", "-", "2", ",", " ", "3", "]">>) \o << NL >>
    \o Bytes(<<"w", "3", " ", "h", "1">>) \o << NL >>
    \o Bytes(<<"0", "0", "0">>) \o << NL >>
    \o << NL >>
    \o Bytes(<<"dquote", "f", "o", "o", "b", "a", "r", "dquote">>) \o << NL >>
    \o Bytes(<<"[", "]">>) \o << NL >>
    \o Bytes(<<"w", "1", " ", "h", "2">>) \o << NL >>
    \o Bytes(<<"0">>) \o << NL >>
    \o Bytes(<<"0">>) \o << NL >>

\* write_collection_with_two_palettes: the text the test expects
doc_written_palettes ==
    Bytes(<<"a", "h", "i", "1", " ", "f", "0", " ", "p", "2", " ", "i", "0",
        " ", "w", "0", " ", "h", "0">>) \o << NL >>
    \o << NL >>
    \o Bytes(<<";", "0", ";", "7", "F", "0", "0", "0", "0", ";", "F", "0",
        "0", ";", "0", "0", "7", "F", "0", "0", ";", "0", "F", "0", ";", "7",
        "F", "7", "F", "0", "0", ";", "F", "F", "0", ";", "0", "0", "0", "0",
        "7", "F", ";", "0", "0", "F", ";", "7", "F", "0", "0", "7", "F", ";",
        "F", "0", "F", ";", "0", "0", "7", "F", "7", "F", ";", "0", "F", "F",
        ";", "7", "F", ";", "F">>) \o << NL >>
    \o Bytes(<<"0", ";", "0", ";", "0", ";", "0", ";", "0", ";", "0", ";",
        "0", ";", "0", ";", "0", ";", "0", ";", "0", ";", "0", ";", "0", ";",
        "0", ";", "0", ";", "0">>) \o << NL >>

\* an image without columns laid out with one empty row line per row, as
\* Image::write_all lays it out, before an image with a pixel
doc_empty_rows ==
    Bytes(<<"a", "h", "i", "1", " ", "f", "1", " ", "p", "0", " ", "i",
        "2">>) \o << NL >>
    \o << NL >>
    \o Bytes(<<"w", "0", " ", "h", "2">>) \o << NL >>
    \o << NL >>
    \o << NL >>
    \o << NL >>
    \o Bytes(<<"w", "1", " ", "h", "1">>) \o << NL >>
    \o Bytes(<<"5">>) \o << NL >>

\* a version-1 document whose flags ask for individual dimensions and whose
\* header line carries global dimensions after the image count all the same
doc_redundant_size ==
    Bytes(<<"a", "h", "i", "1", " ", "f", "1", " ", "p", "0", " ", "i",
        "1", " ", "w", "2", " ", "h", "1">>) \o << NL >>
    \o << NL >>
    \o Bytes(<<"w", "2", " ", "h", "1">>) \o << NL >>
    \o Bytes(<<"2", "0">>) \o << NL >>

TestDocuments ==
    { doc_empty_v0,
      doc_empty_v1,
      doc_two_images,
      doc_two_palettes,
      doc_different_sized,
      doc_some_images_empty,
      doc_string_tags,
      doc_metadata,
      doc_all_flags,
      doc_written_palettes,
      doc_empty_rows,
      doc_redundant_size }

\* the bytes a damaged position may hold: a digit, a newline, and a letter
\* that no field of the format accepts
DamagedBytes == { b_0, NL, Byte("G") }

DocLoad ==
    /\ rd_input = None
    /\ \E bytes \in TestDocuments : rd_input' = File(bytes)
    /\ UNCHANGED <<hu_result, rd_result, notReader>>

\* one byte of the loaded file is replaced, once
DocDamage ==
    /\ rd_input # None
    /\ rd_input.kind = "file"
    /\ rd_result = None
    /\ \E i \in 1..Len(rd_input.val), b \in DamagedBytes :
        /\ rd_input.val[i] # b
        /\ rd_input' = [kind |-> "damaged",
                        val |-> [rd_input.val EXCEPT ![i] = b]]
    /\ UNCHANGED <<hu_result, rd_result, notReader>>

\* Collection::read(input), which returns, panics or never returns
DocRead ==
    /\ rd_input # None
    /\ rd_result = None
    /\ rd_result' \in Outcomes(Collection_read(rd_input.val))
    /\ UNCHANGED <<hu_result, rd_input, notReader>>

NextDocument ==
    \/ DocLoad
    \/ DocDamage
    \/ ReaderTruncate
    \/ DocRead

SpecDocument == InitList /\ [][NextDocument]_vars

---------------------------------------------------------------------------
(* Image under test: images are made by Image::new and changed by clear,   *)
(* fill_rect, draw, the flips, the rotations and crop; the slice of them   *)
(* is written by Image::write_all, or a file is loaded, and the text is    *)
(* read by Image::read_all.                                                *)

\* the sizes asked of Image::new and crop: every size of at most MaxPixels
\* pixels with both sides at most MaxDim, one side of 2^16 with no pixels,
\* and the smallest square whose number of pixels does not fit u32
ImgSizes ==
    { size \in (0..MaxDim) \X (0..MaxDim) : size[1] * size[2] <= MaxPixels }
    \cup { << MAX_HEADER_VALUE + 1, 0 >>,
           << MAX_HEADER_VALUE + 1, MAX_HEADER_VALUE + 1 >> }

\* the colour filled in
FillColors == { 5 }

\* the corners and the sides of the rectangles filled, and the corners at
\* which an image is drawn
Corners == { 0 - 1, 0, 1 }
Sides == { U32(0, 0), U32(0, 2) }

\* the rectangles filled: the small squares, and ones with a side of
\* 2^31 - 1 or of 2^32 - 1
Rects ==
    { <<x, y, side, side>> : x \in Corners, y \in Corners, side \in Sides }
    \cup { <<1, 0, U32(65535, 65535), U32(0, 1)>>,
           <<0, 1, U32(0, 1), U32(65535, 65535)>>,
           <<1, 0, U32(32767, 65535), U32(0, 1)>> }

\* where an image is drawn: near the corner, and at the least i32
DrawCorners ==
    (Corners \X Corners) \cup { <<0, I32_MIN>>, <<I32_MIN, 0>> }

\* the files loaded: the inputs of the tests of Image::read_all
ImageDocuments == { doc_empty_v0, doc_two_images }

NoImage == Image_new(0, 0)

\* what the last operation was given (the size asked of new and crop) and
\* what came of it
Outcome(op, before, args, out) ==
    [op |-> op, kind |-> out.kind, before |-> before, args |-> args,
     after |-> IF out.kind = "ok" THEN out.val ELSE NoImage,
     images |-> << >>]

ImgNew ==
    /\ img_text = None
    /\ Len(img_list) < MaxImages
    /\ \E size \in ImgSizes :
        \E out \in Image_new_outcomes(size[1], size[2]) :
            /\ img_result' = Outcome("new", NoImage, size, out)
            /\ img_list' = IF out.kind = "ok"
                           THEN Append(img_list, out.val) ELSE img_list
    /\ UNCHANGED <<img_text, notImage>>

\* image i of the slice becomes what the operation made of it, unless the
\* operation panicked
Applied(op, i, args, out) ==
    /\ img_result' = Outcome(op, img_list[i], args, out)
    /\ img_list' = IF out.kind = "ok"
                   THEN [img_list EXCEPT ![i] = out.val] ELSE img_list
    /\ UNCHANGED <<img_text, notImage>>

ImgClear ==
    /\ img_text = None
    /\ \E i \in 1..Len(img_list) :
        Applied("clear", i, << >>, Image_clear(img_list[i]))

ImgFillRect ==
    /\ img_text = None
    /\ \E i \in 1..Len(img_list) :
        \E rect \in Rects, color \in FillColors :
            \E out \in { Image_fill_rect(img_list[i], rect[1], rect[2],
                                          rect[3], rect[4], color, checked) :
                            checked \in BOOLEAN } :
                Applied("fill_rect", i, <<rect, color>>, out)

\* the source of a draw is another image than its destination, which is
\* borrowed for writing
ImgDraw ==
    /\ img_text = None
    /\ \E i \in 1..Len(img_list), j \in 1..Len(img_list) :
        \E at \in { c \in DrawCorners : i # j } :
            \E out \in { Image_draw(img_list[i], img_list[j], at[1], at[2],
                                     checked) : checked \in BOOLEAN } :
                Applied("draw", i, <<at, img_list[j]>>, out)

ImgFlipHorz ==
    /\ img_text = None
    /\ \E i \in 1..Len(img_list) :
        Applied("flip_horz", i, << >>, Image_flip_horz(img_list[i]))

ImgFlipVert ==
    /\ img_text = None
    /\ \E i \in 1..Len(img_list) :
        Applied("flip_vert", i, << >>, Image_flip_vert(img_list[i]))

\* the images that are rotated: those whose rotation has at most MaxDim
\* rows, or none because the rotation panics
Rotatable(image) == image.width <= MaxDim \/ FirstAccessFails(image)

ImgRotateCw ==
    /\ img_text = None
    /\ \E i \in 1..Len(img_list) :
        /\ Rotatable(img_list[i])
        /\ Applied("rotate_cw", i, << >>, Image_rotate_cw(img_list[i]))

ImgRotateCcw ==
    /\ img_text = None
    /\ \E i \in 1..Len(img_list) :
        /\ Rotatable(img_list[i])
        /\ Applied("rotate_ccw", i, << >>, Image_rotate_ccw(img_list[i]))

ImgCrop ==
    /\ img_text = None
    /\ \E i \in 1..Len(img_list) :
        \E size \in ImgSizes :
            \E out \in Image_crop_outcomes(img_list[i], size[1], size[2]) :
                Applied("crop", i, size, out)

\* Image::write_all(&mut output, &images) into a Vec<u8>
\* what an index of an image did: the pixel read, or the message of the
\* panic
IndexOutcome(op, before, args, out) ==
    [op |-> op, kind |-> out.kind, before |-> before, args |-> args,
     after |-> IF op = "index_mut" /\ out.kind = "ok" THEN out.val
               ELSE before,
     images |-> << >>,
     value |-> IF op = "index" /\ out.kind = "ok" THEN out.val ELSE 0,
     err |-> IF out.kind = "ok" THEN "" ELSE out.err]

IndexSamples == 0..MaxDim

ImgIndex ==
    /\ img_text = None
    /\ \E i \in 1..Len(img_list) :
        \E col \in IndexSamples, row \in IndexSamples :
            /\ img_result' = IndexOutcome("index", img_list[i], <<col, row>>,
                                Image_index(img_list[i], col, row))
            /\ UNCHANGED <<img_list, img_text, notImage>>

ImgIndexMut ==
    /\ img_text = None
    /\ \E i \in 1..Len(img_list) :
        \E col \in IndexSamples, row \in IndexSamples :
            \E color \in FillColors :
                LET out == Image_index_mut(img_list[i], col, row, color) IN
                /\ img_result' = IndexOutcome("index_mut", img_list[i],
                                              <<col, row, color>>, out)
                /\ img_list' = IF out.kind = "ok"
                               THEN [img_list EXCEPT ![i] = out.val]
                               ELSE img_list
                /\ UNCHANGED <<img_text, notImage>>

ImgWriteAll ==
    /\ img_text = None
    /\ img_text' = Image_write_all(img_list)
    /\ UNCHANGED <<img_list, img_result, notImage>>

\* a file is loaded instead of images being made
ImgLoad ==
    /\ img_text = None
    /\ img_list = << >>
    /\ img_result = None
    /\ \E bytes \in ImageDocuments : img_text' = Written("file", "", bytes)
    /\ UNCHANGED <<img_list, img_result, notImage>>

\* the loaded file ends one byte earlier
ImgTruncate ==
    /\ img_text # None
    /\ img_text.kind = "file"
    /\ img_result = None
    /\ img_text.output # << >>
    /\ img_text' = [img_text EXCEPT !.output = SubSeq(@, 1, Len(@) - 1)]
    /\ UNCHANGED <<img_list, img_result, notImage>>

\* Image::read_all of the bytes written or loaded
ImgReadAll ==
    /\ img_text # None
    /\ IF img_result = None THEN TRUE ELSE img_result.op # "read_all"
    /\ LET r == Image_read_all(img_text.output) IN
        img_result' = [op |-> "read_all", kind |-> r.kind,
                       before |-> NoImage, args |-> << >>, after |-> NoImage,
                       images |-> IF r.kind = "ok" THEN r.val ELSE << >>]
    /\ UNCHANGED <<img_list, img_text, notImage>>

InitImage ==
    /\ ColorIdle
    /\ HeaderIntIdle
    /\ PaletteIdle
    /\ CollectionIdle
    /\ ReaderIdle
    /\ ImageIdle
    /\ FontIdle
    /\ ArithIdle

NextImage ==
    \/ ImgNew
    \/ ImgClear
    \/ ImgFillRect
    \/ ImgDraw
    \/ ImgFlipHorz
    \/ ImgFlipVert
    \/ ImgRotateCw
    \/ ImgRotateCcw
    \/ ImgCrop
    \/ ImgIndex
    \/ ImgIndexMut
    \/ ImgWriteAll
    \/ ImgLoad
    \/ ImgTruncate
    \/ ImgReadAll

SpecImage == InitImage /\ [][NextImage]_vars

---------------------------------------------------------------------------
(* The font: a glyph height, a baseline, a default glyph and a glyph for   *)
(* each of some characters.  A glyph is an image with a left and a right   *)
(* edge.                                                                   *)

\* the highest glyph and the widest glyph image of the model
MaxGlyphHeight == 2
MaxGlyphWidth == 1

Glyph_new(image, left, right) ==
    [image |-> image, left |-> left, right |-> right]

\* Font::with_glyph_height: no character has a glyph and the default glyph
\* is an image without columns of the height of the font
Font_with_glyph_height(glyph_height) ==
    [glyph_height |-> glyph_height, baseline |-> 0,
     default_glyph |-> Glyph_new(Image_new(0, glyph_height), 0, 0),
     glyphs |-> << >>]

\* Font::set_baseline
Font_set_baseline(font, baseline) ==
    Ok([font EXCEPT !.baseline = baseline])

\* Font::set_default_glyph, which takes every glyph
Font_set_default_glyph_unchecked(font, glyph) ==
    Ok([font EXCEPT !.default_glyph = glyph])

\* Font::set_default_glyph: a glyph of another height than the font's is a
\* fatal error of the caller
Font_set_default_glyph(font, glyph) ==
    IF glyph.image.height # font.glyph_height
    THEN Panic("assertion failed")
    ELSE Ok([font EXCEPT !.default_glyph = glyph])

\* the glyphs of a font are kept in the order of their characters, as
\* pairs of a character and its glyph
RECURSIVE InsertGlyph(_, _, _)
InsertGlyph(glyphs, chr, glyph) ==
    IF glyphs = << >> THEN << <<chr, glyph>> >>
    ELSE IF Head(glyphs)[1] = chr
        THEN << <<chr, glyph>> >> \o Tail(glyphs)
    ELSE IF Head(glyphs)[1] > chr
        THEN << <<chr, glyph>> >> \o glyphs
    ELSE << Head(glyphs) >> \o InsertGlyph(Tail(glyphs), chr, glyph)

\* Font::set_char_glyph: a glyph of another height than the font's is a
\* fatal error of the caller
Font_set_char_glyph(font, chr, glyph) ==
    IF glyph.image.height # font.glyph_height
    THEN Panic("assertion failed")
    ELSE Ok([font EXCEPT !.glyphs = InsertGlyph(@, chr, glyph)])

\* every glyph image of a font, the default one first
GlyphImages(font) ==
    << font.default_glyph.image >>
        \o [i \in 1..Len(font.glyphs) |-> font.glyphs[i][2].image]

\* the glyph images of the model: transparent ones of every size and, of
\* those with pixels, the ones painted in one colour
GlyphImageSamples ==
    LET sizes == (0..MaxGlyphWidth) \X (0..MaxGlyphHeight) IN
    { Image_new(size[1], size[2]) : size \in sizes }
    \cup { [Image_new(size[1], size[2]) EXCEPT
                !.pixels = [i \in 1..Len(@) |-> 5]] :
            size \in { sz \in sizes : sz[1] * sz[2] > 0 } }

GlyphEdges == { <<0, 1>>, <<0 - 1, 2>> }
GlyphSamples ==
    { Glyph_new(image, edges[1], edges[2]) :
        image \in GlyphImageSamples, edges \in GlyphEdges }
CharSamples == { 65, 124 }
BaselineSamples == { 0 - 1, 2 }

NoGlyph == Glyph_new(NoImage, 0, 0)

\* what an operation on the font did: the font before it, the glyph and the
\* character it was given, and whether it returned
FontOutcome(op, before, chr, glyph, out) ==
    [op |-> op, kind |-> out.kind, before |-> before, chr |-> chr,
     glyph |-> glyph]

FontApplied(op, chr, glyph, out) ==
    /\ fnt_result' = FontOutcome(op, fnt, chr, glyph, out)
    /\ fnt' = IF out.kind = "ok" THEN out.val ELSE fnt
    /\ UNCHANGED notFont

\* a panic ends the program: nothing is done to the font after it
FontAlive ==
    /\ fnt # None
    /\ fnt_result.kind # "panic"

FontWithGlyphHeight ==
    /\ fnt = None
    /\ \E glyph_height \in 0..MaxGlyphHeight :
        /\ fnt' = Font_with_glyph_height(glyph_height)
        /\ fnt_result' = FontOutcome("with_glyph_height", None, 0, NoGlyph,
                                     Ok(fnt'))
    /\ UNCHANGED notFont

FontSetBaseline ==
    /\ FontAlive
    /\ \E baseline \in BaselineSamples :
        FontApplied("set_baseline", 0, NoGlyph,
                    Font_set_baseline(fnt, baseline))

FontSetDefaultGlyph ==
    /\ FontAlive
    /\ \E glyph \in GlyphSamples :
        FontApplied("set_default_glyph", 0, glyph,
                    Font_set_default_glyph(fnt, glyph))

FontSetCharGlyph ==
    /\ FontAlive
    /\ \E chr \in CharSamples, glyph \in GlyphSamples :
        FontApplied("set_char_glyph", chr, glyph,
                    Font_set_char_glyph(fnt, chr, glyph))

InitFont ==
    /\ ColorIdle
    /\ HeaderIntIdle
    /\ PaletteIdle
    /\ CollectionIdle
    /\ ReaderIdle
    /\ ImageIdle
    /\ FontIdle
    /\ ArithIdle

NextFont ==
    \/ FontWithGlyphHeight
    \/ FontSetBaseline
    \/ FontSetDefaultGlyph
    \/ FontSetCharGlyph

SpecFont == InitFont /\ [][NextFont]_vars

---------------------------------------------------------------------------
(* The arithmetic of the readers: the accumulator of read_header_int and   *)
(* the one of a pass of read_list_of_i16s, fed byte by byte with input of  *)
(* any length, and the pixel count of an image whose size was read from a  *)
(* header.                                                                 *)

\* the bytes fed to read_header_int, called with the terminator ' '
ArithHeaderBytes ==
    { Byte("0"), Byte("3"), Byte("5"), Byte("6"), Byte("9"), b_minus,
      b_space, NL }

\* the bytes fed to read_list_of_i16s after its '['
ArithListBytes ==
    { Byte("0"), Byte("2"), Byte("3"), Byte("6"), Byte("7"), Byte("8"),
      Byte("9"), b_minus, b_comma, b_rbracket, b_space }

\* the heights, read from a header as well, of the images whose width the
\* header reader has returned
ArithHeights == { 0, 1, 2, MAX_HEADER_VALUE }

\* the reader yields one more byte to the loop of read_header_int
ArithHeaderByte ==
    /\ ar_list = ListIntStart
    /\ ar_header.at = "loop"
    /\ \E byte \in ArithHeaderBytes :
        ar_header' = HeaderIntStep(ar_header, byte, b_space)
    /\ UNCHANGED <<ar_list, ar_pixels, notArith>>

\* read_header_uint has returned the width: the pixel count of
\* Image::read_all, (width * height) as usize
ArithPixels ==
    /\ ar_header.at = "break"
    /\ ~ar_header.negative
    /\ ar_pixels = None
    /\ \E height \in ArithHeights :
        ar_pixels' = [width |-> ar_header.value, height |-> height,
                      overflows |-> mul_overflows(ar_header.value, height),
                      num_pixels |-> wrapping_mul(ar_header.value, height)]
    /\ UNCHANGED <<ar_header, ar_list, notArith>>

\* read_header_int has returned a value and is called for the next field
ArithHeaderAgain ==
    /\ ar_header.at = "break"
    /\ ar_header' = HeaderIntStart
    /\ ar_pixels' = None
    /\ UNCHANGED <<ar_list, notArith>>

\* the reader yields one more byte to the for loop of read_list_of_i16s
ArithListByte ==
    /\ ar_header = HeaderIntStart
    /\ ar_pixels = None
    /\ ar_list.at = "loop"
    /\ \E byte \in ArithListBytes :
        ar_list' = ListIntStep(ar_list, byte, << >>)
    /\ UNCHANGED <<ar_header, ar_pixels, notArith>>

\* the value of a pass is pushed and the while loop runs its next pass
ArithListAgain ==
    /\ ar_list.at = "after"
    /\ ar_list.any_digits
    /\ ~ar_list.done
    /\ fits_i16(IF ar_list.negative THEN 0 - ar_list.value
                ELSE ar_list.value)
    /\ ar_list' = ListIntStart
    /\ UNCHANGED <<ar_header, ar_pixels, notArith>>

InitArith ==
    /\ ColorIdle
    /\ HeaderIntIdle
    /\ PaletteIdle
    /\ CollectionIdle
    /\ ReaderIdle
    /\ ImageIdle
    /\ FontIdle
    /\ ArithIdle

NextArith ==
    \/ ArithHeaderByte
    \/ ArithPixels
    \/ ArithHeaderAgain
    \/ ArithListByte
    \/ ArithListAgain

SpecArith == InitArith /\ [][NextArith]_vars

---------------------------------------------------------------------------
(* Claims about the collection codec. *)

StartsWith(s, prefix) ==
    Len(s) >= Len(prefix) /\ SubSeq(s, 1, Len(prefix)) = prefix

SizesDiffer(images) ==
    \E i, j \in 1..Len(images) :
        \/ images[i].width # images[j].width
        \/ images[i].height # images[j].height
AnyTag(images) == \E i \in 1..Len(images) : Len(images[i].tag) > 0
AnyMetadata(images) == \E i \in 1..Len(images) : Len(images[i].metadata) > 0

Version0Text == Bytes(<<"a", "h", "i", "0", " ">>)
Version1Text == Bytes(<<"a", "h", "i", "1", " ">>)
EmptyCollectionText ==
    Bytes(<<"a", "h", "i", "0", " ", "w", "0", " ", "h", "0", " ",
            "n", "0">>) \o << NL >>

\* C1: Collection::write writes version 0 if and only if there are no
\* palettes, all images have one size (no images counts as one size), no
\* image has a tag and no image has metadata; otherwise it writes version 1;
\* and the empty collection is written as exactly "ahi0 w0 h0 n0" and a
\* newline.
C1_VersionZeroIffPlain ==
    coll_output # None =>
        LET plain == /\ coll.palettes = << >>
                     /\ ~SizesDiffer(coll.images)
                     /\ ~AnyTag(coll.images)
                     /\ ~AnyMetadata(coll.images)
        IN
        /\ plain => StartsWith(coll_output.val, Version0Text)
        /\ ~plain => StartsWith(coll_output.val, Version1Text)
        /\ coll = EmptyCollection => coll_output.val = EmptyCollectionText

\* two images of one size with pixels are written as version 0
C1_Witness ==
    /\ coll_output # None
    /\ Len(coll.images) = 2
    /\ coll.images[1].pixels # << >>
    /\ StartsWith(coll_output.val, Version0Text)

\* C2: in a version 1 file the flags field is one hex digit whose bit 0 is
\* set iff the images do not all have one size, whose bit 1 is set iff some
\* image has a tag, whose bit 2 is set iff some image has metadata, and no
\* other bit is set.
C2_FlagBits ==
    (coll_output # None /\ StartsWith(coll_output.val, Version1Text)) =>
        LET out == coll_output.val
            flags == HexDigitValue(out[7])
        IN
        /\ out[6] = b_f
        /\ out[8] = b_space
        /\ flags \in 0..7
        /\ (flags % 2 = 1) <=> SizesDiffer(coll.images)
        /\ ((flags \div 2) % 2 = 1) <=> AnyTag(coll.images)
        /\ ((flags \div 4) % 2 = 1) <=> AnyMetadata(coll.images)

\* sizes differ and there is metadata but no tag: the flags are 5
C2_Witness ==
    /\ coll_output # None
    /\ StartsWith(coll_output.val, Version1Text \o Bytes(<<"f", "5", " ">>))
    /\ ~AnyTag(coll.images)

InHeaderRange(images) ==
    /\ Len(images) <= MAX_HEADER_VALUE
    /\ \A i \in 1..Len(images) :
        /\ images[i].width <= MAX_HEADER_VALUE
        /\ images[i].height <= MAX_HEADER_VALUE

\* the images read are as many as the images written, with the same width,
\* height and pixels
SameDimensionsAndPixels(read, written) ==
    /\ Len(read) = Len(written)
    /\ \A i \in 1..Len(written) :
        /\ read[i].width = written[i].width
        /\ read[i].height = written[i].height
        /\ Len(read[i].pixels) = Len(written[i].pixels)
        /\ \A k \in 1..Len(written[i].pixels) :
            read[i].pixels[k] = written[i].pixels[k]

\* C3: a collection without palettes, tags and metadata whose images have
\* one size, with every width, height and the image count at most 65535, is
\* written in the version 0 form, and reading those bytes succeeds and
\* returns as many images with the same dimensions and the same pixels.
C3_Version0RoundTrip ==
    (/\ coll_readback # None
     /\ coll.palettes = << >>
     /\ ~SizesDiffer(coll.images)
     /\ ~AnyTag(coll.images)
     /\ ~AnyMetadata(coll.images)
     /\ InHeaderRange(coll.images)) =>
        /\ StartsWith(coll_output.val, Version0Text)
        /\ coll_readback.kind = "ok"
        /\ SameDimensionsAndPixels(coll_readback.val.images, coll.images)

\* two images of 65535 by 0 read back
C3_WitnessLargest ==
    /\ coll_readback # None
    /\ coll_readback.kind = "ok"
    /\ StartsWith(coll_output.val, Version0Text)
    /\ Len(coll.images) = 2
    /\ coll.images[1].width = MAX_HEADER_VALUE

\* C4: a collection whose images use non-uniform sizes, tags or metadata is
\* read back from the bytes written with an image list equal to the
\* original: same order, dimensions, pixels, tags and metadata.
C4_ImageListRoundTrip ==
    (/\ coll_readback # None
     /\ \/ SizesDiffer(coll.images)
        \/ AnyTag(coll.images)
        \/ AnyMetadata(coll.images)) =>
        /\ coll_readback.kind = "ok"
        /\ coll_readback.val.images = coll.images

\* with every width, height and count within the largest header value the
\* image list is read back equal
RoundTripWithinHeaderRange ==
    (coll_readback # None /\ InHeaderRange(coll.images)) =>
        /\ coll_readback.kind = "ok"
        /\ coll_readback.val.images = coll.images

---------------------------------------------------------------------------
(* Claims about read_header_uint. *)

\* C11: read_header_uint fails with the must-be-nonnegative error on every
\* field that read_header_int parses to a negative value, otherwise it
\* returns what read_header_int returns (value or error), and every value
\* it returns is in 0..65535.
C11_HeaderUintRejectsNegative ==
    hu_result # None =>
        /\ (IsOk(hi_result) /\ hi_result.val < 0) =>
                hu_result = Err("value must be nonnegative")
        /\ ~(IsOk(hi_result) /\ hi_result.val < 0) => hu_result = hi_result
        /\ IsOk(hu_result) => hu_result.val \in 0..MAX_HEADER_VALUE

\* the field "-35 " is rejected
C11_Witness ==
    /\ hi_result = Ok(0 - 35)
    /\ hu_result = Err("value must be nonnegative")

---------------------------------------------------------------------------
(* Claims about the colour codec. *)

UpperHexBytes == { UpperHexDigit(i) : i \in 0..15 }

\* C9: the colour codec is a bijection between the 16 colours and the bytes
\* '0'..'9', 'A'..'F': a colour written and read back is the same colour,
\* colour i is written as the uppercase hex digit of i, no two colours are
\* written as the same byte, and every other byte of a file (lowercase
\* 'a'..'f' included) is rejected as an invalid pixel character.
C9_ColorCodecBijection ==
    /\ c_byte.kind = "ok" =>
          /\ c_byte.val = UpperHexDigit(c_color)
          /\ \A other \in Colors \ {c_color} : to_byte(other) # c_byte.val
          /\ c_decoded # None => c_decoded = Ok(c_color)
    /\ (c_byte.kind = "file" /\ c_decoded # None) =>
          IF c_byte.val \in UpperHexBytes
          THEN IsOk(c_decoded) /\ UpperHexDigit(c_decoded.val) = c_byte.val
          ELSE c_decoded = Err("invalid pixel character")

C9_Witness ==
    /\ c_color = 15
    /\ c_byte = Ok(Byte("F"))
    /\ c_decoded = Ok(15)

---------------------------------------------------------------------------
(* Claims about the palette codec. *)

RECURSIVE Split(_, _, _)
\* the fields of a palette text from byte i on: the bytes before each ';' or
\* newline, with that separator; bytes after the last separator are a
\* field with separator -1
Split(s, i, cur) ==
    IF i > Len(s)
    THEN IF cur = << >> THEN << >> ELSE << [field |-> cur, sep |-> 0 - 1] >>
    ELSE IF s[i] \in {b_semicolon, NL}
    THEN << [field |-> cur, sep |-> s[i]] >> \o Split(s, i + 1, << >>)
    ELSE Split(s, i + 1, Append(cur, s[i]))

FieldsOf(s) == Split(s, 1, << >>)

\* exactly 16 fields of hex digits, the first 15 each terminated by ';' and
\* the 16th by a newline
IsPaletteLine(s) ==
    LET f == FieldsOf(s) IN
    /\ Len(f) = 16
    /\ \A k \in 1..15 : f[k].sep = b_semicolon
    /\ f[16].sep = NL
    /\ \A k \in 1..16 : \A i \in 1..Len(f[k].field) :
            HexDigitValue(f[k].field[i]) >= 0

IsUpperHex(field) == \A i \in 1..Len(field) : field[i] \in UpperHexBytes

\* the colour of a field of at most 8 digits, by the digit-count table
TableValue(field) ==
    LET d(i) == HexDigitValue(field[i])
        one(i) == d(i) * 17
        two(i) == d(i) * 16 + d(i + 1)
        n == Len(field)
    IN
    CASE n = 0 -> <<0, 0, 0, 0>>
      [] n = 1 -> <<one(1), one(1), one(1), 255>>
      [] n = 2 -> <<two(1), two(1), two(1), 255>>
      [] n = 3 -> <<one(1), one(2), one(3), 255>>
      [] n = 4 -> <<one(1), one(2), one(3), one(4)>>
      [] n = 5 -> <<one(1), one(2), one(3), two(4)>>
      [] n = 6 -> <<two(1), two(3), two(5), 255>>
      [] n = 7 -> <<two(1), two(3), two(5), one(7)>>
      [] n = 8 -> <<two(1), two(3), two(5), two(7)>>

\* whether some field of n digits decodes to exactly rgba
Representable(rgba, n) ==
    LET gray == rgba[1] = rgba[2] /\ rgba[2] = rgba[3]
        short(i) == rgba[i] % 17 = 0
        rgbShort == short(1) /\ short(2) /\ short(3)
    IN
    CASE n = 0 -> rgba = <<0, 0, 0, 0>>
      [] n = 1 -> gray /\ short(1) /\ rgba[4] = 255
      [] n = 2 -> gray /\ rgba[4] = 255
      [] n = 3 -> rgbShort /\ rgba[4] = 255
      [] n = 4 -> rgbShort /\ short(4)
      [] n = 5 -> rgbShort
      [] n = 6 -> rgba[4] = 255
      [] n = 7 -> short(4)
      [] n = 8 -> TRUE

\* the digit count of the shortest field that decodes to exactly rgba
ShortestDigits(rgba) ==
    CHOOSE n \in 0..8 :
        /\ Representable(rgba, n)
        /\ \A m \in 0..(n - 1) : ~Representable(rgba, m)

\* every field is uppercase and the shortest one for the colour it decodes to
InShortestUpperForm(s) ==
    /\ IsPaletteLine(s)
    /\ \A k \in 1..16 :
        LET field == FieldsOf(s)[k].field IN
        /\ IsUpperHex(field)
        /\ Len(field) <= 8
        /\ Len(field) = ShortestDigits(TableValue(field))

\* C5: reading what Palette::write wrote for a palette gives back that
\* palette, slot by slot, for every RGBA value of every slot.
C5_PaletteRoundTrip ==
    (pal_from = "written" /\ pal_result # None) => pal_result = Ok(palette)

\* the part of C6 about what Palette::write emits: 16 uppercase fields, the
\* first 15 followed by ';' and the last by a newline, none with more digits
\* than the shortest field that decodes to exactly the slot's colour
WritesNoLongerThanShortest ==
    pal_from = "written" =>
        /\ IsPaletteLine(pal_text)
        /\ \A k \in 1..16 :
            LET field == FieldsOf(pal_text)[k].field IN
            /\ IsUpperHex(field)
            /\ Len(field) <= ShortestDigits(palette[k])

\* C6: Palette::write never emits more digits for a slot than the shortest
\* field that decodes to exactly its colour, in uppercase, with ';' after the
\* first 15 fields and a newline after the 16th; and so writing a palette
\* read from a text in shortest uppercase form reproduces the text.
C6_ShortestFieldsReproduceText ==
    /\ WritesNoLongerThanShortest
    /\ (pal_from = "loaded" /\ pal_rewritten # None
            /\ InShortestUpperForm(pal_text))
          => pal_rewritten = Ok(pal_text)

\* C7: Palette::read decodes every field by its digit count as the table
\* says, stores field k in slot k, and fails when a field has more than 8
\* digits.
C7_FieldsDecodedByDigitCount ==
    (pal_from = "loaded" /\ pal_result # None /\ IsPaletteLine(pal_text)) =>
        LET f == FieldsOf(pal_text) IN
        IF \E k \in 1..16 : Len(f[k].field) > 8
        THEN pal_result = Err("too many digits in palette color")
        ELSE /\ IsOk(pal_result)
             /\ \A k \in 1..16 : pal_result.val[k] = TableValue(f[k].field)

C7_Witness ==
    /\ pal_from = "loaded"
    /\ pal_text = TestLineWith(15,
            <<b_F, b_F, b_0, Byte("c"), Byte("c"), b_0, Byte("c")>>)
    /\ IsOk(pal_result)
    /\ pal_result.val[16] = <<255, 12, 192, 204>>
    /\ pal_result.val[6] = <<204, 34, 204, 127>>

\* C8: Palette::read succeeds only on a text that holds exactly 16 hex
\* fields, the first 15 each terminated by ';' and the 16th by a newline; a
\* text that ends earlier is an error.
C8_ReadNeedsSixteenFields == IsOk(pal_result) => IsPaletteLine(pal_text)

---------------------------------------------------------------------------
(* Claims about read_header_int. *)

IsDigit(b) == b >= b_0 /\ b <= b_9

RECURSIVE DecimalValue(_)
\* the value of a sequence of ASCII digits read as a decimal number
DecimalValue(d) ==
    IF d = << >> THEN 0
    ELSE DecimalValue(SubSeq(d, 1, Len(d) - 1)) * 10 + (d[Len(d)] - b_0)

\* s without a leading '-'
Unsigned(s) == IF s # << >> /\ s[1] = b_minus THEN Tail(s) ELSE s

AllDigits(d) == \A i \in 1..Len(d) : IsDigit(d[i])

\* an optional single leading '-', then one or more ASCII digits
IsSignedDecimal(s) == Unsigned(s) # << >> /\ AllDigits(Unsigned(s))

SignedValue(s) ==
    IF s[1] = b_minus THEN 0 - DecimalValue(Unsigned(s))
    ELSE DecimalValue(s)

\* C10: read_header_int succeeds only if the bytes it consumed are an
\* optional single leading '-', one or more digits and then the terminator,
\* and then returns the signed decimal value; a terminator with no digit
\* before it is the missing-integer error, a '-' after a digit or after
\* another '-' the misplaced-sign error, any other non-digit byte the
\* invalid-byte error, and a digit that takes the magnitude above 0xFFFF the
\* too-large error.
C10_HeaderIntGrammar ==
    hi_result # None =>
        LET n == Len(hi_consumed)
            last == hi_consumed[n]
            pre == SubSeq(hi_consumed, 1, n - 1)
        IN
        /\ IsOk(hi_result) =>
              /\ n >= 2
              /\ last = hi_term
              /\ IsSignedDecimal(pre)
              /\ hi_result.val = SignedValue(pre)
        /\ hi_result = Err("missing integer field in header") <=>
              (n >= 1 /\ last = hi_term /\ Unsigned(pre) = << >>)
        /\ hi_result = Err("misplaced minus sign in header field") <=>
              (n >= 2 /\ last = b_minus)
        /\ hi_result = Err("invalid byte in header field") <=>
              (n >= 1 /\ last # hi_term /\ last # b_minus /\ ~IsDigit(last))
        /\ hi_result = Err("header value is too large") <=>
              (n >= 1 /\ IsDigit(last)
                 /\ DecimalValue(Unsigned(hi_consumed)) > MAX_HEADER_VALUE)

---------------------------------------------------------------------------
(* Claims about read_list_of_i16s. *)

\* the index of the first byte b of s, or 0
FirstIndex(s, b) ==
    IF \E i \in 1..Len(s) : s[i] = b
    THEN CHOOSE i \in 1..Len(s) : s[i] = b /\ \A j \in 1..(i - 1) : s[j] # b
    ELSE 0

RECURSIVE SplitAtCommas(_, _)
\* the texts between the commas of s
SplitAtCommas(s, cur) ==
    IF s = << >> THEN << cur >>
    ELSE IF Head(s) = b_comma
    THEN << cur >> \o SplitAtCommas(Tail(s), << >>)
    ELSE SplitAtCommas(Tail(s), Append(cur, Head(s)))

\* the input opens with '[' and has a ']'
IsBracketed(input) ==
    input # << >> /\ input[1] = b_lbracket /\ FirstIndex(input, b_rbracket) > 0

\* the text between '[' and the first ']', cut at its commas
ListFields(input) ==
    SplitAtCommas(SubSeq(input, 2, FirstIndex(input, b_rbracket) - 1), << >>)

\* field k follows the separator: the first field follows the bracket, a
\* later one the comma and exactly one space
FollowsSeparator(fields, k) ==
    k = 1 \/ (fields[k] # << >> /\ fields[k][1] = b_space)

\* the element of field k: the field without the space of the separator
Element(fields, k) == IF k = 1 THEN fields[k] ELSE Tail(fields[k])

\* "[]", or '[', signed decimals separated by ", ", and ']'
IsWellFormedList(input) ==
    /\ IsBracketed(input)
    /\ \/ ListFields(input) = << << >> >>
       \/ \A k \in 1..Len(ListFields(input)) :
            /\ FollowsSeparator(ListFields(input), k)
            /\ IsSignedDecimal(Element(ListFields(input), k))

ListValues(input) ==
    IF ListFields(input) = << << >> >> THEN << >>
    ELSE [k \in 1..Len(ListFields(input)) |->
            SignedValue(Element(ListFields(input), k))]

\* C12: read_list_of_i16s returns the elements of a well-formed list in
\* order when every element is in -32768..32767, fails with the
\* out-of-range error when one is not (32768, -32769, longer digit
\* strings), and never returns a value outside -32768..32767.
C12_ListElementsInI16Range ==
    rd_result # None =>
        /\ rd_result.kind = "ok" =>
                \A i \in 1..Len(rd_result.val) :
                    rd_result.val[i] \in (0 - 32768)..32767
        /\ IsWellFormedList(rd_input.val) =>
                IF \A k \in 1..Len(ListValues(rd_input.val)) :
                        ListValues(rd_input.val)[k] \in (0 - 32768)..32767
                THEN rd_result = Ok(ListValues(rd_input.val))
                ELSE rd_result = Err("list integer value is out of range")

\* both ends of the range are read
C12_Witness == rd_result = Ok(<< 0 - 32768, 32767 >>)

\* the first field that is not an element: it does not follow a separator,
\* or it is not a signed decimal (0 if there is none)
FirstBadField(input) ==
    LET fields == ListFields(input)
        bad == { k \in 1..Len(fields) :
                    \/ ~FollowsSeparator(fields, k)
                    \/ ~IsSignedDecimal(Element(fields, k)) }
    IN IF bad = { } THEN 0
       ELSE CHOOSE k \in bad : \A j \in bad : k <= j

\* C13: in a bracketed text that is not "[]", an element with no digits
\* (empty, or a lone '-') fails with the missing-integer error, and every
\* other malformed element or separator fails; only "[]" gives the empty
\* list.
C13_ListRejectsMalformed ==
    (rd_result # None /\ IsBracketed(rd_input.val)) =>
        LET input == rd_input.val
            fields == ListFields(input)
            k == FirstBadField(input)
            in_range(j) ==
                SignedValue(Element(fields, j)) \in (0 - 32768)..32767
        IN
        /\ rd_result = Ok(<< >>) => fields = << << >> >>
        /\ (/\ fields # << << >> >>
            /\ k > 0
            /\ \A j \in 1..(k - 1) : in_range(j)) =>
                /\ rd_result.kind = "err"
                /\ (/\ FollowsSeparator(fields, k)
                    /\ Element(fields, k) \in { << >>, << b_minus >> }) =>
                        rd_result = Err("missing integer in list")


---------------------------------------------------------------------------
(* Claims about read_quoted_string. *)

NotParsed == [ok |-> FALSE]
Parsed(chars) == [ok |-> TRUE, chars |-> chars]

RECURSIVE StripZeros(_)
StripZeros(digits) ==
    IF digits # << >> /\ Head(digits) = 0 THEN StripZeros(Tail(digits))
    ELSE digits

RECURSIVE HexValue(_)
\* the value of at most six hex digit values
HexValue(digits) ==
    IF digits = << >> THEN 0
    ELSE HexValue(SubSeq(digits, 1, Len(digits) - 1)) * 16
            + digits[Len(digits)]

\* the scalar value that the text between "\u{" and "}" stands for, or -1:
\* 1 to 8 hex digits whose value is at most 0x10FFFF and no surrogate
ScalarOfHex(text) ==
    LET digits == [i \in 1..Len(text) |-> HexDigitValue(text[i])]
        value == HexValue(StripZeros(digits))
    IN
    IF Len(text) \notin 1..8 \/ \E i \in 1..Len(text) : digits[i] < 0
    THEN 0 - 1
    ELSE IF Len(StripZeros(digits)) > 6 THEN 0 - 1
    ELSE IF value > 1114111 \/ value \in 55296..57343 THEN 0 - 1
    ELSE value

RECURSIVE ParseItems(_, _)
\* the characters of the items of s up to the closing quote, by the grammar
\* of the claim
ParseItems(s, chars) ==
    IF s = << >> THEN NotParsed
    ELSE IF s[1] = b_quote THEN Parsed(chars)
    ELSE IF s[1] = b_backslash THEN
        IF Len(s) < 2 THEN NotParsed
        ELSE IF s[2] \in {b_backslash, b_apostrophe, b_quote}
        THEN ParseItems(SubSeq(s, 3, Len(s)), Append(chars, s[2]))
        ELSE IF s[2] = b_n
        THEN ParseItems(SubSeq(s, 3, Len(s)), Append(chars, NL))
        ELSE IF s[2] = b_r
        THEN ParseItems(SubSeq(s, 3, Len(s)), Append(chars, CR))
        ELSE IF s[2] = b_t
        THEN ParseItems(SubSeq(s, 3, Len(s)), Append(chars, TAB))
        ELSE IF s[2] = b_u /\ Len(s) >= 3 /\ s[3] = b_lbrace
                /\ FirstIndex(s, b_rbrace) > 0
        THEN
            LET close == FirstIndex(s, b_rbrace)
                scalar == ScalarOfHex(SubSeq(s, 4, close - 1))
            IN
            IF scalar < 0 THEN NotParsed
            ELSE ParseItems(SubSeq(s, close + 1, Len(s)),
                            Append(chars, scalar))
        ELSE NotParsed
    ELSE IF s[1] >= 32 /\ s[1] <= 126
    THEN ParseItems(Tail(s), Append(chars, s[1]))
    ELSE NotParsed

ParseQuoted(input) ==
    IF input = << >> \/ input[1] # b_quote THEN NotParsed
    ELSE ParseItems(Tail(input), << >>)

\* C14: read_quoted_string succeeds exactly on an opening double quote,
\* items that are a byte in 0x20..0x7E other than the double quote and the
\* backslash or one of the escapes \\ \' \" \n \r \t \u{1 to 8 hex digits},
\* and a closing double quote, and returns the decoded characters in order;
\* a byte outside 0x20..0x7E, another escape letter, and a \u value that is
\* a surrogate or above 0x10FFFF make it fail.
C14_QuotedStringGrammar ==
    rd_result # None =>
        IF ParseQuoted(rd_input.val).ok
        THEN rd_result = Ok(ParseQuoted(rd_input.val).chars)
        ELSE rd_result.kind = "err"

\* a snowman and a backslash are decoded
C14_Witness == rd_result = Ok(<< 9731, b_backslash >>)


---------------------------------------------------------------------------
(* Claims about the layout of a document that Collection::read accepts.    *)

RECURSIVE PiecesFrom(_, _, _)
\* the pieces of s from position i on between occurrences of the byte sep,
\* the piece after the last sep being the last
PiecesFrom(s, sep, i) ==
    LET at == { j \in i..Len(s) : s[j] = sep } IN
    IF at = {} THEN << SubSeq(s, i, Len(s)) >>
    ELSE
        LET next == CHOOSE j \in at : \A k \in at : j <= k IN
        << SubSeq(s, i, next - 1) >> \o PiecesFrom(s, sep, next + 1)

SplitAt(s, sep) == PiecesFrom(s, sep, 1)

\* the lines of a document, the text after the last newline being the last
DocLines(text) == SplitAt(text, NL)

\* the first line of a document
HeaderLine(text) ==
    LET at == { j \in 1..Len(text) : text[j] = NL } IN
    IF at = {} THEN text
    ELSE SubSeq(text, 1, (CHOOSE j \in at : \A k \in at : j <= k) - 1)

\* the text after the letter in the header field that begins with it, the
\* first field being the magic number and version
HeaderField(text, letter) ==
    LET fields == SplitAt(HeaderLine(text), b_space)
        with == { i \in 2..Len(fields) :
                    fields[i] # << >> /\ fields[i][1] = letter }
    IN  IF with = {} THEN << >>
        ELSE Tail(fields[CHOOSE i \in with : \A j \in with : i <= j])

\* the version digit of the header line
DocVersion(text) == HeaderLine(text)[4] - b_0

\* the counts and the flags that the header line announces
DocNumPalettes(text) == DecimalValue(HeaderField(text, Byte("p")))
DocNumImages(text) ==
    DecimalValue(HeaderField(text,
        IF DocVersion(text) = 0 THEN Byte("n") ELSE Byte("i")))
DocFlags(text) ==
    LET field == HeaderField(text, Byte("f")) IN
    HexValue([i \in 1..Len(field) |-> HexDigitValue(field[i])])

\* the line on which the block of the first image begins: after the header
\* line and, when palettes are announced, a blank line and a line for each
FirstImageLine(text) ==
    2 + (IF DocNumPalettes(text) > 0 THEN 1 + DocNumPalettes(text) ELSE 0)

\* the number of lines between the blank line of an image block and its
\* first row line
LinesBeforeRows(flags) ==
    (flags % 2) + ((flags \div 2) % 2) + ((flags \div 4) % 2)

\* the row lines of an image: one per row, or none for an image without
\* columns when rowless is set
RowLines(image, rowless) ==
    IF rowless /\ image.width = 0 THEN 0 ELSE image.height

RECURSIVE LaidOutFrom(_, _, _, _, _, _)
\* images k.. are laid out in lines from line number at on: a blank line, the
\* lines the flags ask for, then row lines of exactly width pixel characters
\* in row-major order
LaidOutFrom(images, k, lines, at, flags, rowless) ==
    IF k > Len(images) THEN TRUE
    ELSE
        LET image == images[k]
            first == at + 1 + LinesBeforeRows(flags)
            rows == RowLines(image, rowless)
        IN
        /\ first + rows - 1 <= Len(lines)
        /\ at <= Len(lines)
        /\ lines[at] = << >>
        /\ \A row \in 0..(rows - 1) :
            /\ Len(lines[first + row]) = image.width
            /\ \A col \in 0..(image.width - 1) :
                lines[first + row][col + 1] =
                    UpperHexDigit(image.pixels[row * image.width + col + 1])
        /\ LaidOutFrom(images, k + 1, lines, first + rows, flags, rowless)

\* a collection that was read holds as many palettes and images as the
\* header announces, and its images are laid out in the document
ReadMatchesLayout(rowless) ==
    (rd_input # None /\ rd_result # None /\ rd_result.kind = "ok") =>
        LET text == rd_input.val
            collection == rd_result.val
        IN
        /\ Len(collection.images) = DocNumImages(text)
        /\ Len(collection.palettes) = DocNumPalettes(text)
        /\ LaidOutFrom(collection.images, 1, DocLines(text),
                       FirstImageLine(text), DocFlags(text), rowless)

---------------------------------------------------------------------------
(* Claims about the layout of the document that Collection::write makes.   *)

\* the line is 'w<width> h<height>' in decimal digits
IsSizeLine(line, width, height) ==
    LET fields == SplitAt(line, b_space) IN
    /\ Len(fields) = 2
    /\ Len(fields[1]) > 1
    /\ Len(fields[2]) > 1
    /\ fields[1][1] = Byte("w")
    /\ fields[2][1] = Byte("h")
    /\ AllDigits(Tail(fields[1]))
    /\ AllDigits(Tail(fields[2]))
    /\ DecimalValue(Tail(fields[1])) = width
    /\ DecimalValue(Tail(fields[2])) = height

\* the line is the tag in quotes, as read_quoted_string reads it to its end
IsTagLine(line, tag) ==
    /\ read_quoted_string(line) = ROk(tag, << >>)
    /\ tag = << >> => line = << b_quote, b_quote >>

\* the line is the metadata in brackets, as read_list_of_i16s reads it to
\* its end
IsMetadataLine(line, metadata) ==
    /\ line # << >>
    /\ line[Len(line)] = b_rbracket
    /\ read_list_of_i16s(line) = ROk(metadata, << >>)
    /\ metadata = << >> => line = << b_lbracket, b_rbracket >>

\* the block of image k begins on line number at: a blank line, then the tag
\* line, the metadata line and the size line that the flags ask for, in
\* this order, then the pixel rows
IsImageBlock(image, lines, at, flags) ==
    LET tagged == (flags \div FLAG_STRING_TAGS) % 2
        listed == (flags \div FLAG_METADATA_INTS) % 2
        sized == (flags \div FLAG_INDIVIDUAL_DIMENSIONS) % 2
        first == at + 1 + tagged + listed + sized
        rows == RowLines(image, TRUE)
    IN
    /\ first + rows - 1 <= Len(lines)
    /\ lines[at] = << >>
    /\ tagged = 1 => IsTagLine(lines[at + 1], image.tag)
    /\ listed = 1 => IsMetadataLine(lines[at + 1 + tagged], image.metadata)
    /\ sized = 1 => IsSizeLine(lines[at + 1 + tagged + listed],
                               image.width, image.height)
    /\ \A row \in 0..(rows - 1) :
        /\ Len(lines[first + row]) = image.width
        /\ \A col \in 0..(image.width - 1) :
            lines[first + row][col + 1] =
                UpperHexDigit(image.pixels[row * image.width + col + 1])

RECURSIVE BlocksEnd(_, _, _, _, _)
\* the number of the line after the blocks of images k.. that begin on line
\* number at, or -1 when a block is not laid out as IsImageBlock says
BlocksEnd(images, k, lines, at, flags) ==
    IF k > Len(images) THEN at
    ELSE IF at > Len(lines) \/ ~IsImageBlock(images[k], lines, at, flags)
    THEN 0 - 1
    ELSE BlocksEnd(images, k + 1, lines,
                   at + 1 + LinesBeforeRows(flags)
                      + RowLines(images[k], TRUE), flags)

\* the size that all images share, 0 by 0 for no image
SharedSize(images) ==
    IF images = << >> THEN << 0, 0 >>
    ELSE << images[1].width, images[1].height >>

---------------------------------------------------------------------------
(* Claims about the termination of the readers. *)

\* C17: a reader that was called on a finite input, also one that ends in
\* the middle of a token, has returned: its outcome is a value or an error,
\* never a panic or a loop without end.
C17_ReadersReturn ==
    (rd_input # None /\ rd_result # None) =>
        rd_result.kind \in { "ok", "err" }

---------------------------------------------------------------------------
(* Claims about the errors of Collection::read. *)

\* line number i of the document is there in full, newline included
IsFullLine(lines, i) == i < Len(lines)

\* C18: Collection::read returns a collection only when every palette and
\* every image that the header announces was read in full: each announced
\* palette has a full line of 16 fields, and each announced image has its
\* block; otherwise the outcome is the error of the step that failed.
C18_ReadsAllOrNothing ==
    (rd_input # None /\ rd_result # None /\ rd_result.kind = "ok") =>
        LET text == rd_input.val
            lines == DocLines(text)
        IN
        /\ \A i \in 1..DocNumPalettes(text) :
            /\ IsFullLine(lines, 2 + i)
            /\ Len(SplitAt(lines[2 + i], b_semicolon)) = 16
        /\ Len(rd_result.val.images) = DocNumImages(text)
        /\ LaidOutFrom(rd_result.val.images, 1, lines,
                       FirstImageLine(text), DocFlags(text), TRUE)

---------------------------------------------------------------------------
(* Claims about Image (src/internal/image.rs). *)

\* len(pixels) == width * height, without forming a product that TLC
\* cannot hold
PixelsMatchSize(image) ==
    IF image.width = 0 \/ image.height = 0 THEN image.pixels = << >>
    ELSE /\ Len(image.pixels) % image.width = 0
         /\ Len(image.pixels) \div image.width = image.height

SameSize(a, b) == a.width = b.width /\ a.height = b.height

\* C19: every image made by Image::new, read by Image::read_all or
\* returned or changed by clear, fill_rect, draw, flip_horz, flip_vert,
\* rotate_cw, rotate_ccw and crop holds width * height pixels; the rotations
\* swap width and height, new and crop give the size asked for, and every
\* other operation keeps the size.
C19_PixelsMatchSize ==
    /\ \A i \in 1..Len(img_list) : PixelsMatchSize(img_list[i])
    /\ img_result # None =>
        /\ \A i \in 1..Len(img_result.images) :
            PixelsMatchSize(img_result.images[i])
        /\ img_result.kind = "ok" =>
            /\ PixelsMatchSize(img_result.after)
            /\ img_result.op \in { "rotate_cw", "rotate_ccw" } =>
                /\ img_result.after.width = img_result.before.height
                /\ img_result.after.height = img_result.before.width
            /\ img_result.op \in { "clear", "fill_rect", "draw",
                                   "flip_horz", "flip_vert" } =>
                SameSize(img_result.after, img_result.before)
            /\ img_result.op \in { "new", "crop" } =>
                /\ img_result.after.width = img_result.args[1]
                /\ img_result.after.height = img_result.args[2]

\* the slice holds an image whose size differs from that of the first
SomeSizeDiffers(images) ==
    \E i \in 1..Len(images) : ~SameSize(images[i], images[1])

\* the text is the version-0 document of the images, which share one size:
\* the header line, and for each image a blank line and height row lines of
\* width pixel characters
IsVersion0Document(text, images) ==
    LET lines == DocLines(text)
        header == SplitAt(lines[1], b_space)
        size == SharedSize(images)
    IN
    /\ Len(header) = 4
    /\ header[1] = Bytes(<<"a", "h", "i", "0">>)
    /\ IsSizeLine(header[2] \o << b_space >> \o header[3],
                  size[1], size[2])
    /\ Len(header[4]) > 1
    /\ header[4][1] = Byte("n")
    /\ AllDigits(Tail(header[4]))
    /\ DecimalValue(Tail(header[4])) = Len(images)
    /\ Len(lines) = 2 + Len(images) * (1 + size[2])
    /\ lines[Len(lines)] = << >>
    /\ LaidOutFrom(images, 1, lines, 2, 0, FALSE)

---------------------------------------------------------------------------
(* Claims about a header line that carries dimensions twice.               *)

\* the fields of the header line, the first being the magic number
HeaderFields(text) == SplitAt(HeaderLine(text), b_space)

\* the header line is one of version 1 whose flags have bit 0 set and which
\* has a width field after the image count
HasRedundantSize(text) ==
    LET fields == HeaderFields(text) IN
    /\ Len(fields) >= 5
    /\ fields[1] = Bytes(<<"a", "h", "i", "1">>)
    /\ Len(fields[2]) = 2
    /\ fields[2][1] = Byte("f")
    /\ HexDigitValue(fields[2][2]) >= 0
    /\ HexDigitValue(fields[2][2]) % 2 = 1
    /\ fields[5] # << >>
    /\ fields[5][1] = Byte("w")

\* the document without what follows the image count on its header line
WithoutGlobalSize(text) ==
    LET fields == HeaderFields(text)
        kept == Len(fields[1]) + Len(fields[2]) + Len(fields[3])
                    + Len(fields[4]) + 3
    IN  SubSeq(text, 1, kept)
            \o SubSeq(text, Len(HeaderLine(text)) + 1, Len(text))

\* C21 as stated: a version-1 document with bit 0 of the flags set whose
\* header line carries a global size after the image count is read as the
\* same document without that global size is read, each image taking the
\* size of its own dimension line.
C21_RedundantSizeIgnored ==
    (rd_input # None /\ rd_result # None
        /\ HasRedundantSize(rd_input.val)) =>
        LET plain == Collection_read(WithoutGlobalSize(rd_input.val)) IN
        plain.kind = "ok" => rd_result = Ok(plain.val)

\* C21: a version-1 document with bit 0 of the flags set whose header line
\* carries a global size after the image count is rejected by
\* Collection::read; when the document is well formed but for that global
\* size, the error is the invalid byte that the space after the image count
\* is.
C21_RedundantSizeRejected ==
    (rd_input # None /\ rd_result # None
        /\ HasRedundantSize(rd_input.val)) =>
        /\ rd_result.kind = "err"
        /\ Collection_read(WithoutGlobalSize(rd_input.val)).kind = "ok" =>
                rd_result = Err("invalid byte in header field")

\* the document with both kinds of dimensions has been read, and without
\* the global ones it holds one image of two pixels
C21_Witness ==
    /\ rd_input # None
    /\ rd_input.val = doc_redundant_size
    /\ rd_result # None
    /\ Collection_read(WithoutGlobalSize(doc_redundant_size)).kind = "ok"
    /\ Len(Collection_read(WithoutGlobalSize(doc_redundant_size))
                .val.images) = 1

---------------------------------------------------------------------------
(* Claims about the font.                                                  *)

\* C22: every glyph image of a font, the default glyph included, has the
\* glyph height of the font, after construction and after every setting of
\* a glyph; setting a glyph of another height panics and leaves the font as
\* it was, and a glyph that is set is stored as it was given.
C22_GlyphHeights ==
    fnt # None =>
        /\ \A i \in 1..Len(GlyphImages(fnt)) :
                GlyphImages(fnt)[i].height = fnt.glyph_height
        /\ fnt_result.op \in { "set_default_glyph", "set_char_glyph" } =>
            /\ fnt_result.kind = "panic" <=>
                    fnt_result.glyph.image.height
                        # fnt_result.before.glyph_height
            /\ fnt_result.kind = "panic" => fnt = fnt_result.before
            /\ (fnt_result.kind = "ok"
                    /\ fnt_result.op = "set_default_glyph") =>
                    fnt.default_glyph = fnt_result.glyph
            /\ (fnt_result.kind = "ok"
                    /\ fnt_result.op = "set_char_glyph") =>
                    \E i \in 1..Len(fnt.glyphs) :
                        fnt.glyphs[i] = <<fnt_result.chr, fnt_result.glyph>>

\* a font with a default glyph that was set and glyphs for two characters,
\* on which the setting of a glyph of another height has panicked
C22_Witness ==
    /\ fnt # None
    /\ fnt.glyph_height = 2
    /\ Len(fnt.glyphs) = 2
    /\ fnt.default_glyph.image.width = 1
    /\ fnt_result.op = "set_char_glyph"
    /\ fnt_result.kind = "panic"
    /\ fnt_result.glyph.image.height = 1

---------------------------------------------------------------------------
(* Claims about the operations on an image.                                *)

PixelAt(image, col, row) == image.pixels[row * image.width + col + 1]

\* n < value, for a natural number n and a u32
Below(n, value) ==
    \/ n \div 65536 < value.hi
    \/ (n \div 65536 = value.hi /\ n % 65536 < value.lo)

\* the pixels of the result of fill_rect are those of the image but for
\* the ones in the rectangle, which have the colour
FilledExactly(result) ==
    LET image == result.before
        x == result.args[1][1]
        y == result.args[1][2]
        w == result.args[1][3]
        h == result.args[1][4]
        color == result.args[2]
    IN
    /\ result.kind = "ok"
    /\ SameSize(result.after, image)
    /\ \A r \in 0..(image.height - 1) : \A c \in 0..(image.width - 1) :
        PixelAt(result.after, c, r) =
            IF /\ c >= x
               /\ r >= y
               /\ Below(c - x, w)
               /\ Below(r - y, h)
            THEN color ELSE PixelAt(image, c, r)

\* C25 as stated: fill_rect(x, y, w, h, color) sets to color exactly the
\* pixels (c, r) of the image with x <= c < x + w and y <= r < y + h, leaves
\* the others as they were, and does not panic, wherever the rectangle lies
\* and whatever its sides are.
C25_FillRectExactly ==
    (/\ img_result # None
     /\ img_result.op = "fill_rect"
     /\ PixelsMatchSize(img_result.before)) =>
        FilledExactly(img_result)

\* the same for rectangles whose sides are below 2^15
FillRectExactlyOfSmallSides ==
    (/\ img_result # None
     /\ img_result.op = "fill_rect"
     /\ img_result.args[1][3].hi = 0
     /\ img_result.args[1][4].hi = 0
     /\ PixelsMatchSize(img_result.before)) =>
        FilledExactly(img_result)

\* c - x is a column of an image of the given width, or a row of one of
\* the given height
InsideAt(c, x, size) ==
    IF x <= 0 THEN c < size + x ELSE c >= x /\ c - x < size

\* the pixels of the result of draw are those of the image but for the ones
\* on which a pixel of src that is not transparent comes to lie
DrawnExactly(result) ==
    LET image == result.before
        x == result.args[1][1]
        y == result.args[1][2]
        src == result.args[2]
    IN
    /\ result.kind = "ok"
    /\ SameSize(result.after, image)
    /\ \A r \in 0..(image.height - 1) : \A c \in 0..(image.width - 1) :
        PixelAt(result.after, c, r) =
            IF InsideAt(c, x, src.width) /\ InsideAt(r, y, src.height)
            THEN IF PixelAt(src, c - x, r - y) # 0
                 THEN PixelAt(src, c - x, r - y)
                 ELSE PixelAt(image, c, r)
            ELSE PixelAt(image, c, r)

\* the result of crop has the new size, the pixels of the image where it
\* has some and transparent ones elsewhere
CroppedExactly(result) ==
    /\ result.after.width = result.args[1]
    /\ result.after.height = result.args[2]
    /\ \A r \in 0..(result.after.height - 1) :
        \A c \in 0..(result.after.width - 1) :
            PixelAt(result.after, c, r) =
                IF c < result.before.width /\ r < result.before.height
                THEN PixelAt(result.before, c, r) ELSE 0

\* C24 as stated: draw(src, x, y) changes the pixel (c, r) of the
\* destination to the pixel (c - x, r - y) of src exactly when that lies in
\* src and is not transparent, leaves the other pixels and the size as they
\* were, and does not panic, for every x and y; crop(w, h) gives the image
\* drawn at (0, 0) onto a transparent image of w by h.
C24_DrawExactly ==
    /\ (/\ img_result # None
        /\ img_result.op = "draw"
        /\ PixelsMatchSize(img_result.before)
        /\ PixelsMatchSize(img_result.args[2])) =>
            DrawnExactly(img_result)
    /\ (/\ img_result # None
        /\ img_result.op = "crop"
        /\ img_result.kind = "ok"
        /\ PixelsMatchSize(img_result.before)
        /\ PixelsMatchSize(img_result.after)) =>
            CroppedExactly(img_result)

\* the same for x and y above the least i32
DrawExactlyAboveLeast ==
    /\ (/\ img_result # None
        /\ img_result.op = "draw"
        /\ img_result.args[1][1] > I32_MIN
        /\ img_result.args[1][2] > I32_MIN
        /\ PixelsMatchSize(img_result.before)
        /\ PixelsMatchSize(img_result.args[2])) =>
            DrawnExactly(img_result)
    /\ (/\ img_result # None
        /\ img_result.op = "crop"
        /\ img_result.kind = "ok"
        /\ PixelsMatchSize(img_result.before)
        /\ PixelsMatchSize(img_result.after)) =>
            CroppedExactly(img_result)

---------------------------------------------------------------------------
(* Claims about the assertions of the list reader.                         *)

\* a pass of the outer loop of read_list_of_i16s on the text ends without a
\* digit read while values is not empty or done is false: one of the two
\* debug assertions of the else branch is false
AssertionFails(text) == read_list_of_i16s(text).kind = "noreturn"

\* C26 as stated: on every input, whenever a pass of the outer loop of
\* read_list_of_i16s ends without a digit read, the list of values is
\* empty and done is true, so that neither debug assertion fails.
C26_DebugAssertionsHold ==
    (rd_input # None /\ rd_result # None) => ~AssertionFails(rd_input.val)

---------------------------------------------------------------------------
(* Claims about Image::write_all next to Collection::write.                *)

\* the collection of the images, without palettes
CollectionOf(images) == [palettes |-> << >>, images |-> images]

\* Image::read_all and Collection::read agree on a text: both fail, or both
\* return the same images
SameImagesRead(text) ==
    LET all == Result(Image_read_all(text))
        collection == Result(Collection_read(text))
    IN  /\ all.kind = collection.kind
        /\ all.kind = "ok" => all.val = collection.val.images

\* an image without columns that has rows
IsRowsOnly(image) == image.width = 0 /\ image.height > 0

FirstDiffering(images) ==
    CHOOSE k \in 1..Len(images) :
        /\ ~SameSize(images[k], images[1])
        /\ \A i \in 1..(k - 1) : SameSize(images[i], images[1])

---------------------------------------------------------------------------
(* Claims about the largest header value.                                  *)

\* the decimal digits of n, most significant first
RECURSIVE DigitsOf(_)
DigitsOf(n) ==
    IF n < 10 THEN << b_0 + n >>
    ELSE DigitsOf(n \div 10) \o << b_0 + (n % 10) >>

\* s occurs in text
Occurs(s, text) ==
    \E i \in 1..(Len(text) - Len(s) + 1) :
        SubSeq(text, i, i + Len(s) - 1) = s

\* some width or height of the images is above the largest header value
SomeDimensionTooLarge(images) ==
    \E i \in 1..Len(images) :
        \/ images[i].width > MAX_HEADER_VALUE
        \/ images[i].height > MAX_HEADER_VALUE

\* the counts above the largest header value that are written and read
LargeCounts == { MAX_HEADER_VALUE + 1, MAX_HEADER_VALUE + 2, 100000 }

\* C29: a collection with a width or a height of 65536 or more is written
\* with that number in full, and Collection::read rejects what was written
\* with the too-large error, while a collection whose sizes and counts are
\* at most 65535 is read back; a count of 65536 or more is formatted in
\* full as well and rejected by the reader of the count fields.
C29_WrittenButNotReadBack ==
    /\ (coll_readback # None /\ SomeDimensionTooLarge(coll.images)) =>
        /\ coll_output.kind = "ok"
        /\ \A i \in 1..Len(coll.images) :
            /\ Occurs(<< Byte("w") >> \o DigitsOf(coll.images[i].width),
                      coll_output.val)
            /\ Occurs(<< Byte("h") >> \o DigitsOf(coll.images[i].height),
                      coll_output.val)
        /\ coll_readback = Err("header value is too large")
    /\ (coll_readback # None /\ ~SomeDimensionTooLarge(coll.images)) =>
        /\ coll_readback.kind = "ok"
        /\ coll_readback.val.images = coll.images
    /\ \A n \in LargeCounts :
        /\ FormatUnsigned(n) = DigitsOf(n)
        /\ \A terminator \in { b_space, NL } :
            Result(read_header_uint(FormatUnsigned(n) \o << terminator >>,
                                    terminator))
                = Err("header value is too large")

\* an image of 65536 by 0 after one of a pixel: written, and rejected when
\* read
C29_Witness ==
    /\ coll_readback = Err("header value is too large")
    /\ Len(coll.images) = 2
    /\ coll.images[1].width = 1
    /\ coll.images[1].height = 1
    /\ coll.images[2].width = MAX_HEADER_VALUE + 1
    /\ coll_output.kind = "ok"

---------------------------------------------------------------------------
(* Claims about the arithmetic of the readers.                             *)

\* C30: on input of any length the accumulator of read_header_int is at
\* most 655359 and the accumulator of a pass of read_list_of_i16s at most
\* 327689, both far below the largest i32, and the pixel count width *
\* height of a width and a height that the header reader returned does not
\* overflow a u32.
C30_NoOverflow ==
    /\ ar_header.value >= 0
    /\ ar_header.value <= MAX_HEADER_VALUE * 10 + 9
    /\ ar_list.value >= 0
    /\ ar_list.value <= 32768 * 10 + 9
    /\ MAX_HEADER_VALUE * 10 + 9 <= I32_MAX
    /\ ar_pixels # None =>
        /\ ar_pixels.width <= MAX_HEADER_VALUE
        /\ ar_pixels.height <= MAX_HEADER_VALUE
        /\ ~ar_pixels.overflows

\* the pixel count of the largest image a header can ask for, 65535 by
\* 65535, is 0xFFFE0001
C30_Witness ==
    /\ ar_pixels # None
    /\ ar_pixels.width = MAX_HEADER_VALUE
    /\ ar_pixels.height = MAX_HEADER_VALUE
    /\ ar_pixels.num_pixels = U32(65534, 1)

\* the accumulators reach the bounds
HeaderAccumulatorAtBound == ar_header.value = MAX_HEADER_VALUE * 10 + 9
ListAccumulatorAtBound == ar_list.value = 32768 * 10 + 9

===========================================================================
